---- MODULE Spec2Model ----
EXTENDS Integers, Sequences, FiniteSets, TLC

(***************************************************************************)
(* Text is modelled as a sequence of one-character strings.                *)
(***************************************************************************)
LowerChars == <<"a","b","c","d","e","f","g","h","i","j","k","l","m",
                "n","o","p","q","r","s","t","u","v","w","x","y","z">>
UpperChars == <<"A","B","C","D","E","F","G","H","I","J","K","L","M",
                "N","O","P","Q","R","S","T","U","V","W","X","Y","Z">>
DigitChars == <<"0","1","2","3","4","5","6","7","8","9">>

Range(f) == {f[i] : i \in DOMAIN f}
LowerSet == Range(LowerChars)
UpperSet == Range(UpperChars)
DigitSet == Range(DigitChars)
AlphaSet == LowerSet \cup UpperSet
SpaceSet == {" ", "\n", "\t"}

IndexOf(c, cs) == CHOOSE i \in DOMAIN cs : cs[i] = c
ToLower(c) == IF c \in UpperSet THEN LowerChars[IndexOf(c, UpperChars)] ELSE c
ToUpper(c) == IF c \in LowerSet THEN UpperChars[IndexOf(c, LowerChars)] ELSE c

\* str.lower()
lower(s) == [i \in 1..Len(s) |-> ToLower(s[i])]

\* str.title(): a cased character is upper-cased when the previous character
\* is not cased, lower-cased otherwise.
title(s) == [i \in 1..Len(s) |->
               IF s[i] \in AlphaSet
               THEN IF i > 1 /\ s[i-1] \in AlphaSet THEN ToLower(s[i]) ELSE ToUpper(s[i])
               ELSE s[i]]

\* str.strip()
strip(s) ==
  LET keep == {i \in 1..Len(s) : s[i] \notin SpaceSet}
  IN  IF keep = {} THEN <<>>
      ELSE LET a == CHOOSE i \in keep : \A j \in keep : i <= j
               b == CHOOSE i \in keep : \A j \in keep : j <= i
           IN  SubSeq(s, a, b)

\* "sub in s"
Contains(s, sub) ==
  \E i \in 1..(Len(s) - Len(sub) + 1) : SubSeq(s, i, i + Len(sub) - 1) = sub

(***************************************************************************)
(* Python float: IEEE 754 binary64 with round-to-nearest-even.  A natural  *)
(* number of any size is its sequence of bits, least significant first; a  *)
(* float is [neg, m, e] with value (-1)^neg * m * 2^e, where m has exactly *)
(* 53 bits for a non-zero value (no value of the program comes near the    *)
(* subnormal or the overflow range).                                       *)
(***************************************************************************)
MantissaBits == 53

\* the arithmetic on the bit sequences goes through limbs of LimbBits bits
LimbBits == 13
LimbBase == 8192

\* 2^k for k in 0..30
Pow2Table ==
  <<1, 2, 4, 8, 16, 32, 64, 128, 256, 512, 1024, 2048, 4096, 8192, 16384, 32768,
    65536, 131072, 262144, 524288, 1048576, 2097152, 4194304, 8388608, 16777216, 33554432, 67108864, 134217728, 268435456, 536870912, 1073741824>>
Pow2(k) == Pow2Table[k + 1]

\* Every operand is bound to its value once (v \in {operand}) before it is
\* used, so that no operand is evaluated again at each of its uses.
BnNorm(a0) ==
  CHOOSE r \in {LET ones == {i \in 1..Len(a) : a[i] = 1}
                IN  IF ones = {} THEN <<>>
                    ELSE SubSeq(a, 1, CHOOSE i \in ones : \A j \in ones : j <= i)
                : a \in {a0}} : TRUE

RECURSIVE BnFromNat(_)
BnFromNat(n) == IF n = 0 THEN <<>> ELSE <<n % 2>> \o BnFromNat(n \div 2)

BnShl(a, k) == IF a = <<>> THEN <<>> ELSE [i \in 1..k |-> 0] \o a

BitAt(a, i)  == IF i <= Len(a) THEN a[i] ELSE 0
LimbAt(l, j) == IF j >= 1 /\ j <= Len(l) THEN l[j] ELSE 0

RECURSIVE LimbOf(_, _, _)
LimbOf(a, j, t) ==
  IF t = LimbBits THEN 0
  ELSE BitAt(a, (j - 1) * LimbBits + t + 1) * Pow2(t) + LimbOf(a, j, t + 1)

ToLimbs(a0) ==
  CHOOSE r \in {[j \in 1..((Len(a) + LimbBits - 1) \div LimbBits) |-> LimbOf(a, j, 0)]
                : a \in {a0}} : TRUE

FromLimbs(l0) ==
  BnNorm(CHOOSE r \in {[i \in 1..(LimbBits * Len(l)) |->
                          (l[(i - 1) \div LimbBits + 1] \div Pow2((i - 1) % LimbBits)) % 2]
                       : l \in {l0}} : TRUE)

\* the limbs of the number whose columns are cols, carries propagated
RECURSIVE LimbCarry(_, _, _)
LimbCarry(cols, i, c) ==
  IF i > Len(cols)
  THEN (IF c = 0 THEN <<>> ELSE <<c % LimbBase>> \o LimbCarry(cols, i, c \div LimbBase))
  ELSE <<(cols[i] + c) % LimbBase>> \o LimbCarry(cols, i + 1, (cols[i] + c) \div LimbBase)

BnAdd(a, b) ==
  FromLimbs(CHOOSE r \in {LimbCarry([j \in 1..(IF Len(x) > Len(y) THEN Len(x) ELSE Len(y)) |->
                                       LimbAt(x, j) + LimbAt(y, j)], 1, 0)
                          : x \in {ToLimbs(a)}, y \in {ToLimbs(b)}} : TRUE)

\* a - b for a >= b
RECURSIVE LimbBorrow(_, _, _, _)
LimbBorrow(x, y, i, c) ==
  IF i > Len(x) THEN <<>>
  ELSE <<(x[i] - LimbAt(y, i) - c + LimbBase) % LimbBase>>
       \o LimbBorrow(x, y, i + 1, IF x[i] - LimbAt(y, i) - c < 0 THEN 1 ELSE 0)

BnSub(a, b) ==
  FromLimbs(CHOOSE r \in {LimbBorrow(x, y, 1, 0) : x \in {ToLimbs(a)}, y \in {ToLimbs(b)}} : TRUE)

\* a < b for normalized a and b
BnLt(a, b) ==
  \/ Len(a) < Len(b)
  \/ /\ Len(a) = Len(b)
     /\ \E i \in 1..Len(a) : a[i] < b[i] /\ \A j \in (i + 1)..Len(a) : a[j] = b[j]

\* a * b: the column sums of the schoolbook product, then the carries
RECURSIVE ColumnSum(_, _, _, _)
ColumnSum(x, y, k, i) ==
  IF i > Len(x) THEN 0
  ELSE x[i] * LimbAt(y, k + 1 - i) + ColumnSum(x, y, k, i + 1)

BnMul(a, b) ==
  IF a = <<>> \/ b = <<>> THEN <<>>
  ELSE FromLimbs(CHOOSE r \in
         {LimbCarry(cols, 1, 0) :
            cols \in {[k \in 1..(Len(x) + Len(y) - 1) |-> ColumnSum(x, y, k, 1)]
                      : x \in {ToLimbs(a)}, y \in {ToLimbs(b)}}} : TRUE)

\* the limbs of a \div den, most significant first, then a % den, for the
\* limbs i, i - 1, ..., 1 of a and the remainder r of the limbs above
RECURSIVE LimbDiv(_, _, _, _)
LimbDiv(x, i, r, den) ==
  IF i = 0 THEN <<r>>
  ELSE <<(r * LimbBase + x[i]) \div den>> \o LimbDiv(x, i - 1, (r * LimbBase + x[i]) % den, den)

Reverse(q) == [i \in 1..Len(q) |-> q[Len(q) + 1 - i]]

FlZero == [neg |-> FALSE, m |-> <<>>, e |-> 0]

\* the float nearest to (-1)^neg * n * 2^e for a normalized n, ties to even
FlRoundNorm(neg, n, e) ==
  IF n = <<>> THEN FlZero
  ELSE IF Len(n) <= MantissaBits
  THEN [neg |-> neg, m |-> BnShl(n, MantissaBits - Len(n)),
        e |-> e - (MantissaBits - Len(n))]
  ELSE LET drop   == Len(n) - MantissaBits
           kept   == SubSeq(n, drop + 1, Len(n))
           guard  == n[drop]
           sticky == \E i \in 1..(drop - 1) : n[i] = 1
           up     == guard = 1 /\ (sticky \/ kept[1] = 1)
       IN  IF ~up THEN [neg |-> neg, m |-> kept, e |-> e + drop]
           ELSE CHOOSE f \in
                  {IF Len(r) > MantissaBits
                   THEN [neg |-> neg, m |-> SubSeq(r, 2, Len(r)), e |-> e + drop + 1]
                   ELSE [neg |-> neg, m |-> r, e |-> e + drop]
                   : r \in {BnAdd(kept, <<1>>)}} : TRUE

FlRound(neg, n0, e) == CHOOSE f \in {FlRoundNorm(neg, n, e) : n \in {BnNorm(n0)}} : TRUE

\* float(n) of an int, and the true division num / den of two ints
FlFromNat(n) == FlRound(FALSE, BnFromNat(n), 0)

RatioBits == 64

FlFromRatio(num, den) ==
  IF num = 0 THEN FlZero
  ELSE CHOOSE f \in
         {FlRound(FALSE, <<IF qr[Len(qr)] # 0 THEN 1 ELSE 0>>
                         \o FromLimbs(Reverse(SubSeq(qr, 1, Len(qr) - 1))),
                  -(RatioBits + 1))
          : qr \in {LimbDiv(x, Len(x), 0, den)
                    : x \in {ToLimbs(BnShl(BnFromNat(num), RatioBits))}}} : TRUE

FlNeg(a) == IF a.m = <<>> THEN a ELSE [a EXCEPT !.neg = ~a.neg]
FlAbs(a) == [a EXCEPT !.neg = FALSE]

\* a + b for float values a and b
FlAddValues(a, b) ==
  IF a.m = <<>> THEN b
  ELSE IF b.m = <<>> THEN a
  ELSE LET e0 == IF a.e < b.e THEN a.e ELSE b.e
           x  == BnShl(a.m, a.e - e0)
           y  == BnShl(b.m, b.e - e0)
       IN  IF a.neg = b.neg THEN FlRound(a.neg, BnAdd(x, y), e0)
           ELSE IF BnLt(x, y) THEN FlRound(b.neg, BnSub(y, x), e0)
           ELSE FlRound(a.neg, BnSub(x, y), e0)

FlAdd(a0, b0) == CHOOSE f \in {FlAddValues(a, b) : a \in {a0}, b \in {b0}} : TRUE

FlSub(a0, b0) == CHOOSE f \in {FlAddValues(a, FlNeg(b)) : a \in {a0}, b \in {b0}} : TRUE

FlMul(a0, b0) ==
  CHOOSE f \in {IF a.m = <<>> \/ b.m = <<>> THEN FlZero
                ELSE FlRound(a.neg # b.neg, BnMul(a.m, b.m), a.e + b.e)
                : a \in {a0}, b \in {b0}} : TRUE

\* a < b, a <= b
FlLt(a, b) == \E d \in {FlSub(a, b)} : d.m # <<>> /\ d.neg
FlLe(a, b) == ~FlLt(b, a)

\* max(a, b) and min(a, b) as Python picks them: the first argument unless
\* the second is strictly greater (smaller)
FlSecond(a0, b0) == b0

FlMax(a0, b0) == CHOOSE f \in {IF FlLt(a, b) THEN b ELSE a : a \in {a0}, b \in {b0}} : TRUE
FlMin(a0, b0) == CHOOSE f \in {IF FlLt(b, a) THEN b ELSE a : a \in {a0}, b \in {b0}} : TRUE

(***************************************************************************)
(* A backtracking matcher for the regular expressions of self.patterns.    *)
(* A match state is [p |-> next position, g |-> <<from, to>> of group 1];  *)
(* the result of a node is the sequence of match states in the priority    *)
(* order of Python's re (greedy repetition, leftmost alternative first).   *)
(***************************************************************************)
Chr(S)         == [t |-> "chr", s |-> S]
Cat(rs)        == [t |-> "cat", rs |-> rs]
Alt(rs)        == [t |-> "alt", rs |-> rs]
Rep(r, lo, hi) == [t |-> "rep", r |-> r, lo |-> lo, hi |-> hi]
Grp(r)         == [t |-> "grp", r |-> r]
Bol            == [t |-> "bol"]
Eol            == [t |-> "eol"]

RepInf == 64
Opt(r)  == Rep(r, 0, 1)
Star(r) == Rep(r, 0, RepInf)
Plus(r) == Rep(r, 1, RepInf)
\* a literal, case-sensitive and under re.IGNORECASE
Lit(w)  == Cat([i \in 1..Len(w) |-> Chr({w[i]})])
LitI(w) == Cat([i \in 1..Len(w) |-> Chr({ToLower(w[i]), ToUpper(w[i])})])

RECURSIVE ReMatch(_, _, _)
RECURSIVE ReCat(_, _, _, _)
RECURSIVE ReEach(_, _, _, _, _)
RECURSIVE ReAlt(_, _, _, _)
RECURSIVE ReRep(_, _, _, _)
RECURSIVE ReRepEach(_, _, _, _, _)
RECURSIVE ReGrpEach(_, _, _)

ReMatch(r, s, st) ==
  CASE r.t = "chr" -> IF st.p <= Len(s) /\ s[st.p] \in r.s
                      THEN <<[st EXCEPT !.p = @ + 1]>> ELSE <<>>
    [] r.t = "cat" -> ReCat(r.rs, 1, s, st)
    [] r.t = "alt" -> ReAlt(r.rs, 1, s, st)
    [] r.t = "rep" -> ReRep(r, s, st, 0)
    [] r.t = "grp" -> ReGrpEach(ReMatch(r.r, s, st), 1, st.p)
    [] r.t = "bol" -> IF st.p = 1 \/ s[st.p - 1] = "\n" THEN <<st>> ELSE <<>>
    [] r.t = "eol" -> IF st.p = Len(s) + 1 \/ s[st.p] = "\n" THEN <<st>> ELSE <<>>

ReCat(rs, k, s, st) ==
  IF k > Len(rs) THEN <<st>>
  ELSE ReEach(rs, k, s, ReMatch(rs[k], s, st), 1)

ReEach(rs, k, s, sts, j) ==
  IF j > Len(sts) THEN <<>>
  ELSE ReCat(rs, k + 1, s, sts[j]) \o ReEach(rs, k, s, sts, j + 1)

ReAlt(rs, k, s, st) ==
  IF k > Len(rs) THEN <<>>
  ELSE ReMatch(rs[k], s, st) \o ReAlt(rs, k + 1, s, st)

ReRep(r, s, st, n) ==
  (IF n < r.hi THEN ReRepEach(r, s, ReMatch(r.r, s, st), 1, n) ELSE <<>>)
  \o (IF n >= r.lo THEN <<st>> ELSE <<>>)

ReRepEach(r, s, sts, j, n) ==
  IF j > Len(sts) THEN <<>>
  ELSE ReRep(r, s, sts[j], n + 1) \o ReRepEach(r, s, sts, j + 1, n)

ReGrpEach(sts, j, from) ==
  IF j > Len(sts) THEN <<>>
  ELSE <<[sts[j] EXCEPT !.g = <<from, sts[j].p>>]>> \o ReGrpEach(sts, j + 1, from)

\* the first match starting exactly at position i, or <<>>
ReAt(r, s, i) ==
  LET ms == ReMatch(r, s, [p |-> i, g |-> <<0, 0>>])
  IN  IF ms = <<>> THEN <<>> ELSE <<[from |-> i, to |-> ms[1].p, g |-> ms[1].g]>>

\* re.search from position i: the leftmost match, <<>> when there is none
ReSearchFrom(r, s, i) ==
  LET hits == {j \in i..(Len(s) + 1) : ReAt(r, s, j) # <<>>}
  IN  IF hits = {} THEN <<>>
      ELSE ReAt(r, s, CHOOSE j \in hits : \A k \in hits : j <= k)

ReSearch(r, s) == ReSearchFrom(r, s, 1)

Group1(s, m) == SubSeq(s, m.g[1], m.g[2] - 1)

\* re.findall for a pattern with one group: group 1 of the successive
\* non-overlapping matches
RECURSIVE ReFindAllFrom(_, _, _)
ReFindAllFrom(r, s, i) ==
  LET m == ReSearchFrom(r, s, i)
  IN  IF m = <<>> THEN <<>>
      ELSE <<Group1(s, m[1])>>
           \o ReFindAllFrom(r, s, IF m[1].to > m[1].from THEN m[1].to ELSE m[1].to + 1)

ReFindAll(r, s) == ReFindAllFrom(r, s, 1)

(***************************************************************************)
(* AdvancedInvoiceParser: the tables and patterns of __init__.             *)
(***************************************************************************)
MISCELLANEOUS == "Miscellaneous"
UnknownVendor == <<"U","n","k","n","o","w","n"," ","V","e","n","d","o","r">>

\* self.uae_categories, in definition order: <<category value, keywords>>
uae_categories == <<
  <<"Medical Supplies", <<
      <<"s","y","r","i","n","g","e">>,
      <<"g","l","o","v","e","s">>,
      <<"m","a","s","k">>,
      <<"b","a","n","d","a","g","e">>,
      <<"m","e","d","i","c","i","n","e">>,
      <<"p","h","a","r","m","a","c","e","u","t","i","c","a","l">>,
      <<"m","e","d","i","c","a","l"," ","e","q","u","i","p","m","e","n","t">>,
      <<"s","t","e","t","h","o","s","c","o","p","e">>,
      <<"t","h","e","r","m","o","m","e","t","e","r">>,
      <<"v","a","c","c","i","n","e">>,
      <<"a","n","t","i","b","i","o","t","i","c","s">>
  >> >>,
  <<"Office Rent", <<
      <<"r","e","n","t">>,
      <<"l","e","a","s","e">>,
      <<"p","r","o","p","e","r","t","y">>,
      <<"o","f","f","i","c","e"," ","s","p","a","c","e">>,
      <<"b","u","i","l","d","i","n","g">>,
      <<"p","r","e","m","i","s","e","s">>,
      <<"t","e","n","a","n","c","y">>,
      <<"r","e","n","t","a","l"," ","a","g","r","e","e","m","e","n","t">>
  >> >>,
  <<"Utilities", <<
      <<"e","l","e","c","t","r","i","c","i","t","y">>,
      <<"w","a","t","e","r">>,
      <<"i","n","t","e","r","n","e","t">>,
      <<"t","e","l","e","p","h","o","n","e">>,
      <<"w","i","f","i">>,
      <<"e","t","i","s","a","l","a","t">>,
      <<"d","u">>,
      <<"d","e","w","a">>,
      <<"a","d","d","c">>,
      <<"s","e","w","a">>,
      <<"f","e","w","a">>,
      <<"p","o","w","e","r">>,
      <<"g","a","s">>
  >> >>,
  <<"Equipment", <<
      <<"e","q","u","i","p","m","e","n","t">>,
      <<"m","a","c","h","i","n","e">>,
      <<"c","o","m","p","u","t","e","r">>,
      <<"p","r","i","n","t","e","r">>,
      <<"m","e","d","i","c","a","l"," ","d","e","v","i","c","e">>,
      <<"f","u","r","n","i","t","u","r","e">>,
      <<"s","o","f","t","w","a","r","e">>,
      <<"h","a","r","d","w","a","r","e">>,
      <<"i","n","s","t","a","l","l","a","t","i","o","n">>
  >> >>,
  <<"Insurance", <<
      <<"i","n","s","u","r","a","n","c","e">>,
      <<"t","a","k","a","f","u","l">>,
      <<"m","e","d","i","c","a","l"," ","i","n","s","u","r","a","n","c","e">>,
      <<"l","i","a","b","i","l","i","t","y">>,
      <<"c","o","v","e","r","a","g","e">>,
      <<"p","r","e","m","i","u","m">>,
      <<"p","o","l","i","c","y">>
  >> >>,
  <<"Professional Licenses", <<
      <<"l","i","c","e","n","s","e">>,
      <<"p","e","r","m","i","t">>,
      <<"d","h","a">>,
      <<"d","o","h">>,
      <<"m","o","h","a","p">>,
      <<"t","r","a","d","e"," ","l","i","c","e","n","s","e">>,
      <<"p","r","o","f","e","s","s","i","o","n","a","l"," ","l","i","c","e","n","s","e">>,
      <<"r","e","g","i","s","t","r","a","t","i","o","n">>,
      <<"c","e","r","t","i","f","i","c","a","t","i","o","n">>
  >> >>,
  <<"Professional Fees", <<
      <<"c","o","n","s","u","l","t","a","t","i","o","n">>,
      <<"a","u","d","i","t">>,
      <<"l","e","g","a","l">>,
      <<"a","c","c","o","u","n","t","i","n","g">>,
      <<"c","a"," ","f","e","e","s">>,
      <<"a","d","v","i","s","o","r","y">>,
      <<"p","r","o","f","e","s","s","i","o","n","a","l"," ","s","e","r","v","i","c","e","s">>,
      <<"c","o","n","s","u","l","t","a","n","c","y">>
  >> >>,
  <<"Marketing & Advertising", <<
      <<"a","d","v","e","r","t","i","s","e","m","e","n","t">>,
      <<"m","a","r","k","e","t","i","n","g">>,
      <<"s","o","c","i","a","l"," ","m","e","d","i","a">>,
      <<"w","e","b","s","i","t","e">>,
      <<"p","r","o","m","o","t","i","o","n">>,
      <<"b","r","a","n","d","i","n","g">>,
      <<"d","i","g","i","t","a","l"," ","m","a","r","k","e","t","i","n","g">>,
      <<"s","e","o">>
  >> >>,
  <<"Transportation", <<
      <<"t","a","x","i">>,
      <<"u","b","e","r">>,
      <<"c","a","r","e","e","m">>,
      <<"f","u","e","l">>,
      <<"p","a","r","k","i","n","g">>,
      <<"s","a","l","i","k">>,
      <<"t","r","a","n","s","p","o","r","t">>,
      <<"d","e","l","i","v","e","r","y">>,
      <<"l","o","g","i","s","t","i","c","s">>,
      <<"p","e","t","r","o","l">>
  >> >>,
  <<"Meals & Entertainment", <<
      <<"r","e","s","t","a","u","r","a","n","t">>,
      <<"f","o","o","d">>,
      <<"l","u","n","c","h">>,
      <<"d","i","n","n","e","r">>,
      <<"c","a","t","e","r","i","n","g">>,
      <<"c","o","f","f","e","e">>,
      <<"m","e","a","l">>,
      <<"r","e","f","r","e","s","h","m","e","n","t","s">>,
      <<"h","o","s","p","i","t","a","l","i","t","y">>
  >> >>
>>

uae_vendors == <<
  <<"e","m","i","r","a","t","e","s"," ","n","b","d">>,
  <<"a","d","c","b">>,
  <<"f","a","b">>,
  <<"m","a","s","h","r","e","q">>,
  <<"c","b","d">>,
  <<"r","a","k","b","a","n","k">>,
  <<"h","s","b","c">>,
  <<"e","t","i","s","a","l","a","t">>,
  <<"d","u">>,
  <<"d","e","w","a">>,
  <<"a","d","d","c">>,
  <<"s","e","w","a">>,
  <<"f","e","w","a">>,
  <<"c","a","r","r","e","f","o","u","r">>,
  <<"l","u","l","u">>,
  <<"s","p","i","n","n","e","y","s">>,
  <<"w","a","i","t","r","o","s","e">>,
  <<"u","n","i","o","n"," ","c","o","o","p">>,
  <<"a","m","a","z","o","n">>,
  <<"n","o","o","n">>,
  <<"t","a","l","a","b","a","t">>,
  <<"d","e","l","i","v","e","r","o","o">>,
  <<"z","o","m","a","t","o">>
>>

D == Chr(DigitSet)
S == Chr(SpaceSet)
DateSep == Chr({"/", "-", "."})

\* \d{1,3}(?:,\d{3})*(?:\.\d{2})?
Num == Cat(<<Rep(D, 1, 3), Star(Cat(<<Chr({","}), Rep(D, 3, 3)>>)),
             Opt(Cat(<<Chr({"."}), Rep(D, 2, 2)>>))>>)

\* self.patterns["amount"], compiled with re.IGNORECASE | re.MULTILINE
amount_patterns == <<
  Cat(<<Alt(<<LitI(<<"t","o","t","a","l">>), LitI(<<"a","m","o","u","n","t">>),
              Cat(<<LitI(<<"g","r","a","n","d">>), Plus(S), LitI(<<"t","o","t","a","l">>)>>),
              Cat(<<LitI(<<"f","i","n","a","l">>), Plus(S), LitI(<<"a","m","o","u","n","t">>)>>)>>),
        Star(Chr({":"} \cup SpaceSet)),
        Opt(Cat(<<LitI(<<"a","e","d">>), Star(S)>>)),
        Grp(Num)>>),
  Cat(<<LitI(<<"a","e","d">>), Star(S), Grp(Num)>>),
  Cat(<<Grp(Num), Star(S),
        Alt(<<LitI(<<"a","e","d">>), Lit(<<"U+062F", ".", "U+0625">>)>>)>>),
  Cat(<<LitI(<<"t","o","t","a","l">>), Star(Chr({":"} \cup SpaceSet)), Grp(Num)>>),
  Cat(<<Grp(Cat(<<Rep(D, 1, 3), Star(Cat(<<Chr({","}), Rep(D, 3, 3)>>)),
                  Chr({"."}), Rep(D, 2, 2)>>)),
        Star(S), Eol>>)
>>

\* self.patterns["date"], compiled with re.IGNORECASE
date_patterns == <<
  Cat(<<Alt(<<LitI(<<"d","a","t","e">>),
              Cat(<<LitI(<<"i","n","v","o","i","c","e">>), Plus(S), LitI(<<"d","a","t","e">>)>>),
              Cat(<<LitI(<<"b","i","l","l">>), Plus(S), LitI(<<"d","a","t","e">>)>>)>>),
        Star(Chr({":"} \cup SpaceSet)),
        Grp(Cat(<<Rep(D, 1, 2), DateSep, Rep(D, 1, 2), DateSep, Rep(D, 2, 4)>>))>>),
  Grp(Cat(<<Rep(D, 1, 2), DateSep, Rep(D, 1, 2), DateSep, Rep(D, 4, 4)>>)),
  Grp(Cat(<<Rep(D, 4, 4), DateSep, Rep(D, 1, 2), DateSep, Rep(D, 1, 2)>>))
>>

\* vendor_patterns of _extract_vendor_name, searched with re.MULTILINE only
VendorChars == AlphaSet \cup SpaceSet \cup {"&", ".", "-"}
vendor_patterns == <<
  Cat(<<Alt(<<Lit(<<"f","r","o","m">>), Lit(<<"v","e","n","d","o","r">>), Lit(<<"c","o","m","p","a","n","y">>),
              Cat(<<Lit(<<"b","i","l","l","e","d">>), Plus(S), Lit(<<"b","y">>)>>)>>),
        Star(Chr({":"} \cup SpaceSet)),
        Grp(Plus(Chr(VendorChars)))>>),
  Cat(<<Bol, Grp(Cat(<<Chr(UpperSet), Rep(Chr(VendorChars), 2, 30)>>))>>),
  Grp(Cat(<<Chr(UpperSet), Rep(Chr(UpperSet \cup SpaceSet \cup {"&", "."}), 5, 30)>>))
>>

ColonSpace == Chr({":"} \cup SpaceSet)
OptAed     == Opt(Cat(<<LitI(<<"a","e","d">>), Star(S)>>))

\* self.patterns["subtotal"], searched with re.IGNORECASE
subtotal_patterns == <<
  Cat(<<Alt(<<LitI(<<"s","u","b","t","o","t","a","l">>),
              Cat(<<LitI(<<"s","u","b">>), Plus(S), LitI(<<"t","o","t","a","l">>)>>),
              Cat(<<LitI(<<"n","e","t">>), Plus(S), LitI(<<"a","m","o","u","n","t">>)>>)>>),
        Star(ColonSpace), OptAed, Grp(Num)>>),
  Cat(<<LitI(<<"a","m","o","u","n","t">>), Plus(S), LitI(<<"b","e","f","o","r","e">>), Plus(S), LitI(<<"v","a","t">>), Star(ColonSpace), Grp(Num)>>)
>>

\* self.patterns["vat"], searched with re.IGNORECASE
vat_patterns == <<
  Cat(<<Alt(<<LitI(<<"v","a","t">>), LitI(<<"t","a","x">>),
              Cat(<<LitI(<<"v","a","l","u","e">>), Plus(S), LitI(<<"a","d","d","e","d">>), Plus(S), LitI(<<"t","a","x">>)>>)>>),
        Star(Chr({":", "@"} \cup SpaceSet)),
        Opt(Cat(<<Lit(<<"5", "%">>), Star(S)>>)), OptAed, Grp(Num)>>),
  Cat(<<Lit(<<"5", "%">>), Star(ColonSpace), OptAed, Grp(Num)>>),
  Cat(<<LitI(<<"t","a","x">>), Plus(S), LitI(<<"a","m","o","u","n","t">>), Star(ColonSpace), Grp(Num)>>)
>>

\* self.patterns["invoice_number"], searched with re.IGNORECASE
InvNumChars == LowerSet \cup UpperSet \cup DigitSet \cup {"-", "/"}
invoice_number_patterns == <<
  Cat(<<Alt(<<Cat(<<LitI(<<"i","n","v","o","i","c","e">>), Plus(S), Alt(<<LitI(<<"n","o">>), LitI(<<"n","u","m","b","e","r">>), Lit(<<"#">>)>>)>>),
              Cat(<<LitI(<<"i","n","v">>), Star(S), Opt(Lit(<<"#">>))>>),
              Cat(<<LitI(<<"r","e","c","e","i","p","t">>), Plus(S), Alt(<<LitI(<<"n","o">>), Lit(<<"#">>)>>)>>)>>),
        Star(ColonSpace), Grp(Plus(Chr(InvNumChars)))>>),
  Cat(<<Lit(<<"#">>), Star(S), Grp(Rep(Chr(InvNumChars), 3, RepInf))>>),
  Cat(<<LitI(<<"i","n","v","o","i","c","e">>), Star(ColonSpace), Grp(Rep(Chr(InvNumChars), 3, RepInf))>>)
>>

\* self.patterns["due_date"], searched with re.IGNORECASE
due_date_patterns == <<
  Cat(<<Alt(<<Cat(<<LitI(<<"d","u","e">>), Plus(S), LitI(<<"d","a","t","e">>)>>),
              Cat(<<LitI(<<"p","a","y","m","e","n","t">>), Plus(S), LitI(<<"d","u","e">>)>>)>>),
        Star(ColonSpace),
        Grp(Cat(<<Rep(D, 1, 2), DateSep, Rep(D, 1, 2), DateSep, Rep(D, 2, 4)>>))>>)
>>

\* self.patterns["trn"], searched with re.IGNORECASE
trn_patterns == <<
  Cat(<<Alt(<<LitI(<<"t","r","n">>),
              Cat(<<LitI(<<"t","a","x">>), Plus(S), LitI(<<"r","e","g","i","s","t","r","a","t","i","o","n">>)>>),
              Cat(<<LitI(<<"v","a","t">>), Plus(S), LitI(<<"r","e","g">>)>>)>>),
        Star(Chr({":", "#"} \cup SpaceSet)), Grp(Rep(D, 15, 15))>>),
  Cat(<<LitI(<<"t","r","n">>), Star(ColonSpace), Grp(Rep(D, 15, 15))>>)
>>

\* self.patterns["phone"], searched with re.IGNORECASE
Plus971 == Lit(<<"+", "9", "7", "1">>)
phone_patterns == <<
  Cat(<<Alt(<<LitI(<<"t","e","l">>), LitI(<<"p","h","o","n","e">>), LitI(<<"m","o","b","i","l","e">>)>>), Star(ColonSpace),
        Grp(Cat(<<Plus971, Star(S), Rep(D, 1, 2), Star(S), Rep(D, 3, 3), Star(S), Rep(D, 4, 4)>>))>>),
  Grp(Cat(<<Plus971, Rep(Chr(DigitSet \cup SpaceSet \cup {"-"}), 8, RepInf)>>)),
  Grp(Cat(<<Chr({"0"}), Rep(Chr(DigitSet \cup SpaceSet \cup {"-"}), 8, RepInf)>>))
>>

(***************************************************************************)
(* Field extraction.  Amounts are held in hundredths (float(match) * 100); *)
(* a date is the record [y, m, d] that strftime('%Y-%m-%d') prints.        *)
(***************************************************************************)
DigitVal(c) == IndexOf(c, DigitChars) - 1

RECURSIVE DigitsVal(_)
DigitsVal(ds) ==
  IF ds = <<>> THEN 0
  ELSE 10 * DigitsVal(SubSeq(ds, 1, Len(ds) - 1)) + DigitVal(ds[Len(ds)])

\* float(match.replace(',', '')) of a capture of Num, in hundredths
ParseAmount(m) ==
  LET nc   == SelectSeq(m, LAMBDA c : c # ",")
      dots == {i \in 1..Len(nc) : nc[i] = "."}
  IN  IF dots = {} THEN 100 * DigitsVal(nc)
      ELSE LET k == CHOOSE i \in dots : TRUE
           IN  100 * DigitsVal(SubSeq(nc, 1, k - 1)) + DigitsVal(SubSeq(nc, k + 1, Len(nc)))

RECURSIVE FlattenSeq(_)
FlattenSeq(ss) == IF ss = <<>> THEN <<>> ELSE Head(ss) \o FlattenSeq(Tail(ss))

MinOf(S0) == CHOOSE x \in S0 : \A y \in S0 : x <= y

\* max(amounts)
MaxOf(S0) == CHOOSE x \in S0 : \A y \in S0 : y <= x

\* the candidates of _extract_amount: every findall capture of every amount
\* pattern that lies in 0.01 <= amount <= 1000000
AmountCandidates(text) ==
  LET all == FlattenSeq([k \in 1..Len(amount_patterns) |-> ReFindAll(amount_patterns[k], text)])
  IN  {ParseAmount(all[i]) : i \in {j \in 1..Len(all) : ParseAmount(all[j]) >= 1
                                                      /\ ParseAmount(all[j]) <= 100000000}}

extract_amount(text) ==
  IF AmountCandidates(text) = {} THEN 0 ELSE MaxOf(AmountCandidates(text))

\* dateparser.parse of a numeric capture a<sep>b<sep>c: the year is the
\* four-digit field (or 2000 + the trailing two-digit field), month before
\* day unless that month is impossible; None (<<>>) when no reading is a date
SplitDate(m) ==
  LET seps == {i \in 1..Len(m) : m[i] \in {"/", "-", "."}}
      s1   == CHOOSE i \in seps : \A j \in seps : i <= j
      s2   == CHOOSE i \in seps : \A j \in seps : j <= i
  IN  <<SubSeq(m, 1, s1 - 1), SubSeq(m, s1 + 1, s2 - 1), SubSeq(m, s2 + 1, Len(m))>>

DaysInMonth(y, mo) ==
  IF mo = 2 THEN (IF y % 4 = 0 /\ (y % 100 # 0 \/ y % 400 = 0) THEN 29 ELSE 28)
  ELSE IF mo \in {4, 6, 9, 11} THEN 30 ELSE 31

dateparser_parse(m) ==
  LET f == SplitDate(m)
      a == DigitsVal(f[1])
      b == DigitsVal(f[2])
      c == DigitsVal(f[3])
      mk(y, mo, d) == IF mo \in 1..12 /\ d \in 1..DaysInMonth(y, mo) THEN <<[y |-> y, m |-> mo, d |-> d]>> ELSE <<>>
  IN  IF Len(f[1]) = 4 THEN mk(a, b, c)
      ELSE LET y == IF Len(f[3]) = 4 THEN c ELSE 2000 + c
           IN  IF mk(y, a, b) # <<>> THEN mk(y, a, b) ELSE mk(y, b, a)

YearFloor == 2020

\* _extract_date: the first capture, in pattern order, that parses to a year
\* >= 2020; today's date otherwise
extract_date(text, today) ==
  LET all  == FlattenSeq([k \in 1..Len(date_patterns) |-> ReFindAll(date_patterns[k], text)])
      good == {i \in 1..Len(all) : dateparser_parse(all[i]) # <<>>
                                   /\ dateparser_parse(all[i])[1].y >= YearFloor}
  IN  IF good = {} THEN today
      ELSE dateparser_parse(all[CHOOSE i \in good : \A j \in good : i <= j])[1]

\* _extract_vendor_name
KnownVendorHits(text) == {k \in 1..Len(uae_vendors) : Contains(lower(text), uae_vendors[k])}

VendorCandidate(k, text) ==
  LET m == ReSearch(vendor_patterns[k], text)
  IN  IF m = <<>> THEN <<>>
      ELSE LET vendor == strip(Group1(text, m[1]))
           IN  IF Len(vendor) >= 3 /\ Len(vendor) <= 50
                  /\ \A i \in 1..Len(vendor) : vendor[i] \notin DigitSet
               THEN <<title(vendor)>> ELSE <<>>

extract_vendor_name(text) ==
  IF KnownVendorHits(text) # {}
  THEN title(uae_vendors[CHOOSE k \in KnownVendorHits(text) : \A j \in KnownVendorHits(text) : k <= j])
  ELSE LET ok == {k \in 1..Len(vendor_patterns) : VendorCandidate(k, text) # <<>>}
       IN  IF ok = {} THEN UnknownVendor
           ELSE VendorCandidate(CHOOSE k \in ok : \A j \in ok : k <= j, text)[1]

\* _categorize_expense
OneWord(w) == 1

\* len(keyword.split())
WordCount(w) ==
  Cardinality({i \in 1..Len(w) : w[i] \notin SpaceSet /\ (i = 1 \/ w[i - 1] \in SpaceSet)})

RECURSIVE KeywordScore(_, _, _)
KeywordScore(kws, j, text_lower) ==
  IF j > Len(kws) THEN 0
  ELSE (IF Contains(text_lower, kws[j]) THEN WordCount(kws[j]) ELSE 0)
       + KeywordScore(kws, j + 1, text_lower)

category_score(k, text) == KeywordScore(uae_categories[k][2], 1, lower(text))

categorize_expense(text) ==
  LET scored == {k \in 1..Len(uae_categories) : category_score(k, text) > 0}
  IN  IF scored = {} THEN MISCELLANEOUS
      ELSE LET best == CHOOSE k \in scored :
                         /\ \A j \in scored : category_score(j, text) <= category_score(k, text)
                         /\ \A j \in scored : j < k => category_score(j, text) < category_score(k, text)
           IN  uae_categories[best][1]

\* the first pattern, in list order, that re.search finds in the text: its
\* number and its match
FirstSearch(patterns, text) ==
  LET hit == {k \in 1..Len(patterns) : ReSearch(patterns[k], text) # <<>>}
  IN  IF hit = {} THEN <<>>
      ELSE LET k == CHOOSE i \in hit : \A j \in hit : i <= j
           IN  <<Group1(text, ReSearch(patterns[k], text)[1])>>

\* _extract_subtotal, _extract_vat: a capture of Num always converts, so the
\* first pattern that matches gives the value, in hundredths
extract_subtotal(text) ==
  IF FirstSearch(subtotal_patterns, text) = <<>> THEN 0
  ELSE ParseAmount(FirstSearch(subtotal_patterns, text)[1])

extract_vat(text) ==
  IF FirstSearch(vat_patterns, text) = <<>> THEN 0
  ELSE ParseAmount(FirstSearch(vat_patterns, text)[1])

upper(s) == [i \in 1..Len(s) |-> ToUpper(s[i])]

\* _extract_invoice_number: the first pattern whose capture, stripped, has
\* three or more characters
extract_invoice_number(text) ==
  LET cap(k) == strip(Group1(text, ReSearch(invoice_number_patterns[k], text)[1]))
      ok == {k \in 1..Len(invoice_number_patterns) :
               /\ ReSearch(invoice_number_patterns[k], text) # <<>>
               /\ Len(cap(k)) >= 3}
  IN  IF ok = {} THEN <<>>
      ELSE upper(cap(CHOOSE k \in ok : \A j \in ok : k <= j))

\* _extract_due_date: no year floor; "" (NoDueDate) when nothing parses
NoDueDate == <<>>
extract_due_date(text) ==
  LET m == FirstSearch(due_date_patterns, text)
  IN  IF m = <<>> \/ dateparser_parse(m[1]) = <<>> THEN NoDueDate
      ELSE dateparser_parse(m[1])

\* _extract_trn: a capture of \d{15} always has 15 digits
extract_trn(text) ==
  IF FirstSearch(trn_patterns, text) = <<>> THEN <<>>
  ELSE FirstSearch(trn_patterns, text)[1]

\* _extract_phone
extract_phone(text) ==
  IF FirstSearch(phone_patterns, text) = <<>> THEN <<>>
  ELSE strip(FirstSearch(phone_patterns, text)[1])

(***************************************************************************)
(* Validation and confidence.  The findings are the messages of            *)
(* _validate_data without the figures they quote; the amounts of a record  *)
(* are in hundredths and enter the float arithmetic as float(match).       *)
(***************************************************************************)
NoValidAmount        == <<"N","o"," ","v","a","l","i","d"," ","a","m","o","u","n","t"," ","f","o","u","n","d">>
VatMismatch          == <<"V","A","T"," ","a","m","o","u","n","t"," ","d","o","e","s","n","'","t"," ","m","a","t","c","h"," ","5","%"," ","o","f"," ","s","u","b","t","o","t","a","l">>
VendorNotIdentified  == <<"V","e","n","d","o","r"," ","n","a","m","e"," ","n","o","t"," ","i","d","e","n","t","i","f","i","e","d">>
InvoiceNumberMissing == <<"I","n","v","o","i","c","e"," ","n","u","m","b","e","r"," ","n","o","t"," ","f","o","u","n","d">>
FutureDate           == <<"I","n","v","o","i","c","e"," ","d","a","t","e"," ","i","s"," ","i","n"," ","t","h","e"," ","f","u","t","u","r","e">>
InvalidDateFormat    == <<"I","n","v","a","l","i","d"," ","d","a","t","e"," ","f","o","r","m","a","t">>
ExtractionError      == <<"E","x","t","r","a","c","t","i","o","n"," ","e","r","r","o","r">>

\* the default of InvoiceData.date is "", which strptime does not read
EmptyDate == [y |-> 0, m |-> 0, d |-> 0]

DateAfter(a, b) ==
  \/ a.y > b.y
  \/ a.y = b.y /\ a.m > b.m
  \/ a.y = b.y /\ a.m = b.m /\ a.d > b.d

\* float(match.replace(',', '')) of an amount held in hundredths
FloatOf(hundredths) == FlFromRatio(hundredths, 100)

Float0_05 == FlFromRatio(5, 100)
Float0_10 == FlFromRatio(10, 100)
Float0_15 == FlFromRatio(15, 100)
Float0_20 == FlFromRatio(20, 100)
Float0_25 == FlFromRatio(25, 100)
Float0_75 == FlFromRatio(75, 100)
Float1_0  == FlFromNat(1)

\* abs(data.vat_amount - data.subtotal * 0.05)
VatDifference(data) ==
  FlAbs(FlSub(FloatOf(data.vat_amount), FlMul(FloatOf(data.subtotal), Float0_05)))

\* _validate_data; datetime.now() falls on the day today
validate_data(data, today) ==
  (IF data.amount <= 0 THEN <<NoValidAmount>> ELSE <<>>)
  \o (IF data.vat_amount > 0 /\ data.subtotal > 0 /\ FlLt(Float1_0, VatDifference(data))
      THEN <<VatMismatch>> ELSE <<>>)
  \o (IF data.vendor_name = UnknownVendor THEN <<VendorNotIdentified>> ELSE <<>>)
  \o (IF data.invoice_number = <<>> THEN <<InvoiceNumberMissing>> ELSE <<>>)
  \o (IF data.date = EmptyDate THEN <<InvalidDateFormat>>
      ELSE IF DateAfter(data.date, today) THEN <<FutureDate>> ELSE <<>>)

\* the number of bonus_fields that are not empty
BonusFields(data) ==
  (IF data.vendor_trn # <<>> THEN 1 ELSE 0)
  + (IF data.vendor_phone # <<>> THEN 1 ELSE 0)
  + (IF data.due_date # <<>> THEN 1 ELSE 0)

VendorNotUnknown(data) == data.vendor_name = UnknownVendor

\* data.vendor_name != "Unknown Vendor"
VendorIdentified(data) == data.vendor_name # UnknownVendor

\* the date signal: data.date != datetime.now().strftime('%Y-%m-%d')
DateExtracted(data, today) == data.date # today

\* _calculate_confidence on a record value: the additions in the order of the
\* code, innermost first (s1 is the amount signal, s8 the penalty)
ConfidenceOf(data, today) ==
  CHOOSE c \in
    {FlMax(FlZero, FlMin(Float1_0, s8)) : s8 \in
    {IF data.validation_errors # <<>>
     THEN FlSub(s7, FlMul(FlFromNat(Len(data.validation_errors)), Float0_05))
     ELSE s7 : s7 \in
    {FlAdd(s6, FlMul(FlFromRatio(BonusFields(data), 3), Float0_10)) : s6 \in
    {IF data.category # MISCELLANEOUS THEN FlAdd(s5, Float0_10) ELSE s5 : s5 \in
    {IF data.vat_amount > 0 /\ data.subtotal > 0 /\ FlLe(VatDifference(data), Float1_0)
     THEN FlAdd(s4, Float0_10) ELSE s4 : s4 \in
    {IF DateExtracted(data, today) THEN FlAdd(s3, Float0_10) ELSE s3 : s3 \in
    {IF data.invoice_number # <<>> THEN FlAdd(s2, Float0_15) ELSE s2 : s2 \in
    {IF VendorIdentified(data) THEN FlAdd(s1, Float0_20) ELSE s1 : s1 \in
    {IF data.amount > 0 THEN FlAdd(FlZero, Float0_25) ELSE FlZero}}}}}}}}} : TRUE

calculate_confidence(data0, today) ==
  CHOOSE c \in {ConfidenceOf(data, today) : data \in {data0}} : TRUE

(***************************************************************************)
(* Invoice submission: process_invoice_image from the OCR result on, and   *)
(* DatabaseManager.save_invoice.                                           *)
(***************************************************************************)
\* first lines of the sampled invoices: one vendor in three letter cases and
\* with a doubled blank, and one vendor of self.uae_vendors
VendorLines == {
  <<"A","c","m","e"," ","L","L","C">>,
  <<"A","C","M","E"," ","L","L","C">>,
  <<"a","c","m","e"," ","l","l","c">>,
  <<"A","c","m","e"," "," ","L","L","C">>,
  <<"E","t","i","s","a","l","a","t">>
}
AmountLine == <<"2","5","0",".","0","0"," ","A","E","D">>
DateLine   == <<"0","3","/","0","3","/","2","0","2","4">>

\* the sampled invoice texts: a vendor line and an amount line, and one text
\* that also prints its date
RawTexts ==
  {v \o <<"\n">> \o AmountLine : v \in VendorLines}
  \cup {<<"A","c","m","e"," ","L","L","C">> \o <<"\n">> \o DateLine \o <<"\n">> \o AmountLine}

\* annotations[0].description as the OCR service delivers it: the texts, one
\* of them also with blank noise around it
OcrDescriptions ==
  RawTexts \cup {<<" ">> \o <<"A","c","m","e"," ","L","L","C">> \o <<"\n">> \o AmountLine \o <<"\n">>}

Users == {"userA", "userB"}

MaxSaves == 2
MaxDay   == 2

\* datetime.now().strftime('%Y-%m-%d') on clock day i
Today(i) == [y |-> 2024, m |-> 3, d |-> 2 + i]

\* the parser's result for every sampled description and clock day, the
\* invoice store and the last answer of process_invoice_image
VARIABLES parsed, invoices, next_id, user_sessions, category_stats, clock, outcome,
          last, submitted
\* the reconciliation store and the runs of the matcher
VARIABLES inv_store, txn_store, run, match_log, serialized, runs_started
\* the statement being ingested
VARIABLES payload, pos, records, dropped, ing_pc
\* one call of extract_structured_data from process_invoice_image: the text,
\* the record being filled, the position in the function and the invoices
\* table afterwards
VARIABLES ex_text, ex_data, ex_pc, ex_step, stored
\* one record under _validate_data and _calculate_confidence
VARIABLES sc_data, sc_pc, sc_before
\* the transaction service: the linked SecurityService, the call in progress,
\* what the blockchain recorded, what the calls returned
VARIABLES tx_security, tx_data, tx, tx_pc, tx_log, tx_result, tx_next_id, tx_recorded,
          tx_returned, tx_got
\* the rate limiter: the clock, the middleware's request_history, the
\* forwarded requests and the last response
VARIABLES rl_now, request_history, rl_forwarded, rl_last, rl_requests, rl_ticks

save_vars   == <<parsed, invoices, next_id, user_sessions, category_stats, clock, outcome,
                 last, submitted>>
recon_vars  == <<inv_store, txn_store, run, match_log, serialized, runs_started>>
ingest_vars == <<payload, pos, records, dropped, ing_pc>>
extract_vars == <<ex_text, ex_data, ex_pc, ex_step, stored>>
score_vars == <<sc_data, sc_pc, sc_before>>
parser_vars  == <<extract_vars, score_vars>>
tx_vars == <<tx_security, tx_data, tx, tx_pc, tx_log, tx_result, tx_next_id, tx_recorded,
             tx_returned, tx_got>>
rl_vars == <<rl_now, request_history, rl_forwarded, rl_last, rl_requests, rl_ticks>>
service_vars == <<tx_vars, rl_vars>>
vars        == <<save_vars, recon_vars, ingest_vars, parser_vars, service_vars>>

\* extract_structured_data, the fields that reach save_invoice's statements
extract_structured_data(ocr_text, today) ==
  [raw_text    |-> ocr_text,
   amount      |-> extract_amount(ocr_text),
   date        |-> extract_date(ocr_text, today),
   vendor_name |-> extract_vendor_name(ocr_text),
   category    |-> categorize_expense(ocr_text)]

\* detected_text = annotations[0].description.strip(), then
\* invoice_parser.extract_structured_data(detected_text)
ExtractTable ==
  [t \in OcrDescriptions, i \in 1..(MaxDay + 1) |->
     extract_structured_data(strip(t), Today(i))]

\* hashlib.md5(f"{vendor_name}{amount}{date}").hexdigest(): the digest is
\* taken to be collision-free, and the three parts of the string cannot run
\* into each other (the amount starts and ends with a digit, the date has a
\* fixed width), so the hash is the triple of the three raw field values
invoice_hash_of(invoice_data) ==
  <<invoice_data.vendor_name, invoice_data.amount, invoice_data.date>>

\* a table without the UNIQUE constraint: no row ever conflicts
ConflictsWithoutUnique(rows, h) == {}

\* the rows that the UNIQUE constraint on invoice_hash puts in conflict with
\* a new row
Conflicts(rows, h) == {i \in 1..Len(rows) : rows[i].invoice_hash = h}

\* a plain INSERT that keeps the conflicting rows
InsertKeepingOld(rows, row) == rows \o <<row>>

\* INSERT OR REPLACE INTO invoices: conflicting rows are deleted, then the
\* new row is inserted
InsertOrReplace(rows, row) ==
  LET c == Conflicts(rows, row.invoice_hash)
  IN  SelectSeq(rows, LAMBDA r : r.invoice_hash # row.invoice_hash \/ c = {})
      \o <<row>>

RECURSIVE SumAmount(_)
SumAmount(rows) == IF rows = <<>> THEN 0 ELSE Head(rows).amount + SumAmount(Tail(rows))

RowsOfUser(rows, u)        == SelectSeq(rows, LAMBDA r : r.user_id = u)
RowsOfCategory(rows, u, c) == SelectSeq(rows, LAMBDA r : r.user_id = u /\ r.category = c)

\* INSERT OR REPLACE INTO user_sessions ... SELECT SUM(amount), COUNT(*)
UpdateSession(sessions, rows, u) ==
  [x \in (DOMAIN sessions) \cup {u} |->
     IF x = u
     THEN [total_expenses |-> SumAmount(RowsOfUser(rows, u)),
           total_invoices |-> Len(RowsOfUser(rows, u))]
     ELSE sessions[x]]

\* INSERT OR REPLACE INTO category_stats ... SELECT SUM(amount), COUNT(*)
UpdateCategory(stats, rows, u, c) ==
  [x \in (DOMAIN stats) \cup {<<u, c>>} |->
     IF x = <<u, c>>
     THEN [total_amount  |-> SumAmount(RowsOfCategory(rows, u, c)),
           invoice_count |-> Len(RowsOfCategory(rows, u, c))]
     ELSE stats[x]]

NewRow(id, user_id, invoice_data) ==
  [id           |-> id,
   user_id      |-> user_id,
   invoice_hash |-> invoice_hash_of(invoice_data),
   amount       |-> invoice_data.amount,
   date         |-> invoice_data.date,
   vendor_name  |-> invoice_data.vendor_name,
   category     |-> invoice_data.category,
   raw_text     |-> invoice_data.raw_text]

NoCall == [user |-> "", hash |-> <<>>, dup |-> FALSE, owner |-> ""]

\* the store and the session of a fresh process
SaveIdle ==
  /\ invoices = <<>>
  /\ next_id = 1
  /\ user_sessions = [x \in {} |-> 0]
  /\ category_stats = [x \in {} |-> 0]
  /\ clock = 1
  /\ outcome = [reply |-> "none", saved |-> FALSE]
  /\ last = NoCall
  /\ submitted = [x \in {} |-> 0]

SaveInit ==
  /\ parsed = ExtractTable
  /\ SaveIdle

\* what the call leaves for the properties to read: the caller, the hash of
\* its invoice, whether that hash was stored when the call began, and for
\* which user
CallRecord(u, data) ==
  LET c == {i \in 1..Len(invoices) : invoices[i].invoice_hash = invoice_hash_of(data)}
  IN  [user  |-> u,
       hash  |-> invoice_hash_of(data),
       dup   |-> c # {},
       owner |-> IF c = {} THEN "" ELSE invoices[CHOOSE i \in c : TRUE].user_id]

CountSubmission(text) ==
  [x \in (DOMAIN submitted) \cup {<<text, clock>>} |->
     IF x = <<text, clock>>
     THEN (IF x \in DOMAIN submitted THEN 2 ELSE 1)
     ELSE submitted[x]]

\* process_invoice_image, the save succeeds: the text is extracted, saved and
\* answered with the invoice summary
ProcessInvoiceImage(user, description) ==
  LET data == parsed[description, clock]
      rows == InsertOrReplace(invoices, NewRow(next_id, user, data))
  IN  /\ next_id <= MaxSaves
      /\ invoices' = rows
      /\ next_id' = next_id + 1
      /\ user_sessions' = UpdateSession(user_sessions, rows, user)
      /\ category_stats' = UpdateCategory(category_stats, rows, user, data.category)
      /\ outcome' = [reply |-> "invoice_summary", saved |-> TRUE]
      /\ last' = CallRecord(user, data)
      /\ submitted' = CountSubmission(data.raw_text)
      /\ UNCHANGED <<parsed, clock, recon_vars, ingest_vars, parser_vars, service_vars>>

\* the tables after the first `done` of the three statements of save_invoice
AfterStatements(user, invoice_data, done) ==
  LET rows == IF done >= 1
              THEN InsertOrReplace(invoices, NewRow(next_id, user, invoice_data))
              ELSE invoices
  IN  [invoices       |-> rows,
       user_sessions  |-> IF done >= 2 THEN UpdateSession(user_sessions, rows, user)
                          ELSE user_sessions,
       category_stats |-> IF done >= 3
                          THEN UpdateCategory(category_stats, rows, user, invoice_data.category)
                          ELSE category_stats]

\* a connection that commits every statement by itself
KeptWrites(before, written) == written

\* the except branch is reached before conn.commit() took effect: the
\* connection goes away with its transaction open and the statements that
\* were executed are rolled back
Rollback(before, written) == before

\* process_invoice_image, save_invoice catches an exception of the database
\* after `done` statements (3: in conn.commit()): False is returned and only
\* logged
ProcessInvoiceImageSaveFails(user, description, done) ==
  /\ <<description, clock>> \in DOMAIN parsed
  /\ \E db \in {Rollback(AfterStatements(user, parsed[description, clock], 0),
                          AfterStatements(user, parsed[description, clock], done))} :
        /\ invoices' = db.invoices
        /\ user_sessions' = db.user_sessions
        /\ category_stats' = db.category_stats
  /\ outcome' = [reply |-> "invoice_summary", saved |-> FALSE]
  /\ last' = NoCall
  /\ UNCHANGED <<parsed, next_id, clock, submitted>>
  /\ UNCHANGED <<recon_vars, ingest_vars, parser_vars, service_vars>>

\* the clock day advances
Tick ==
  /\ clock < MaxDay
  /\ clock' = clock + 1
  /\ UNCHANGED <<parsed, invoices, next_id, user_sessions, category_stats, outcome, last, submitted>>
  /\ UNCHANGED <<recon_vars, ingest_vars, parser_vars, service_vars>>

SaveNext ==
  \/ \E u \in Users, t \in OcrDescriptions : ProcessInvoiceImage(u, t)
  \/ \E u \in Users, t \in OcrDescriptions, done \in 0..3 :
       ProcessInvoiceImageSaveFails(u, t, done)
  \/ Tick

(***************************************************************************)
(* ReconciliationMatcher (spec section 4.6) over the storage collaborator  *)
(* of section 6.  A run fetches the unpaid invoices, then the unreconciled *)
(* transactions, then handles the transactions one by one; the host may    *)
(* start runs from two threads, with or without a per-owner lock.          *)
(***************************************************************************)
NumInvoices     == 2
NumTransactions == 2
MaxRuns         == 2

Threads == {"t1", "t2"}

\* amounts in hundredths; an invoice without a readable amount carries 0
InvoiceKinds ==
  {[vendor |-> <<"A","c","m","e">>, amount |-> 25000],
   [vendor |-> <<"A","c","m","e">>, amount |-> 0],
   [vendor |-> <<"Z","e","d">>, amount |-> 25000]}

TransactionKinds ==
  {[description |-> <<"P","a","y","m","e","n","t"," ","t","o"," ","A","C","M","E"," ","L","L","C">>, amount |-> -25000],
   [description |-> <<"P","a","y","m","e","n","t"," ","t","o"," ","A","C","M","E"," ","L","L","C">>, amount |-> 25000],
   [description |-> <<"P","a","y","m","e","n","t"," ","t","o"," ","A","C","M","E"," ","L","L","C">>, amount |-> 0]}

NoDate == [y |-> 0, m |-> 0, d |-> 0]

\* the date of the i-th statement row
TransactionDate(i) == [y |-> 2024, m |-> 3, d |-> i]

IdleRun == [pc |-> "idle", invoices |-> <<>>, remaining |-> <<>>, txns |-> <<>>,
            k |-> 0, count |-> 0, pairs |-> <<>>]

ReconInit ==
  /\ inv_store \in [1..NumInvoices ->
                     {[vendor |-> x.vendor, amount |-> x.amount,
                       status |-> "unpaid", paymentDate |-> NoDate] : x \in InvoiceKinds}]
  /\ \E kind \in [1..NumTransactions -> TransactionKinds] :
        txn_store = [i \in 1..NumTransactions |->
                       [description |-> kind[i].description, amount |-> kind[i].amount,
                        date |-> TransactionDate(i), reconciled |-> FALSE,
                        matchedInvoiceId |-> 0]]
  /\ run = [r \in Threads |-> IdleRun]
  /\ match_log = <<>>
  /\ serialized \in BOOLEAN
  /\ runs_started = 0

Abs(x) == IF x < 0 THEN -x ELSE x

\* getUnpaidInvoices(ownerId), getUnreconciledTransactions(ownerId): the ids
\* in stable input order
getUnpaidInvoices ==
  SelectSeq([i \in 1..NumInvoices |-> i], LAMBDA i : inv_store[i].status = "unpaid")
getUnreconciledTransactions ==
  SelectSeq([i \in 1..NumTransactions |-> i], LAMBDA i : ~txn_store[i].reconciled)

\* any transaction that moves money, whatever its direction
EligibleAnySign(t) == txn_store[t].amount # 0

\* only a transaction with a negative (outgoing) amount is considered
Eligible(t) == txn_store[t].amount < 0

\* a pair matched on the vendor name alone
MatchesVendorOnly(t, i) ==
  Contains(lower(txn_store[t].description), lower(inv_store[i].vendor))

\* a pair matches when the absolute amount equals the invoice amount exactly
\* and the vendor name is a case-insensitive substring of the description
Matches(t, i) ==
  /\ Abs(txn_store[t].amount) = inv_store[i].amount
  /\ Contains(lower(txn_store[t].description), lower(inv_store[i].vendor))

\* the last matching candidate instead of the first
LastMatch(t, remaining) ==
  LET hits == {j \in 1..Len(remaining) : Matches(t, remaining[j])}
  IN  IF hits = {} THEN 0 ELSE CHOOSE j \in hits : \A h \in hits : h <= j

\* the position of the first remaining invoice that matches, 0 when none
FirstMatch(t, remaining) ==
  LET hits == {j \in 1..Len(remaining) : Matches(t, remaining[j])}
  IN  IF hits = {} THEN 0 ELSE CHOOSE j \in hits : \A h \in hits : j <= h

\* the matched invoice stays among the candidates
KeepCandidate(remaining, j) == remaining

\* remove the matched invoice from further consideration in this run
RemoveCandidate(remaining, j) ==
  SubSeq(remaining, 1, j - 1) \o SubSeq(remaining, j + 1, Len(remaining))

\* a write that marks the invoice only
MarkInvoiceOnly(txns, t, i) == txns

\* markReconciled(invoiceId, transactionId, paymentDate), the transaction
MarkTransaction(txns, t, i) ==
  [txns EXCEPT ![t].reconciled = TRUE, ![t].matchedInvoiceId = i]

\* markReconciled(invoiceId, transactionId, paymentDate), the invoice
MarkInvoice(invs, i, paymentDate) ==
  [invs EXCEPT ![i].status = "paid", ![i].paymentDate = paymentDate]

\* a host that takes no lock
StartAnyTime(r) == TRUE

\* the host's per-owner lock: a serialized run starts only when no other run
\* is between its first fetch and its end
MayStart(r) ==
  serialized => \A q \in Threads \ {r} : run[q].pc \in {"idle", "done"}

\* a run begins: fetch the unpaid invoices
StartRun(r) ==
  /\ run[r].pc \in {"idle", "done"}
  /\ runs_started < MaxRuns
  /\ MayStart(r)
  /\ run' = [run EXCEPT ![r] = [IdleRun EXCEPT !.pc = "fetched",
                                              !.invoices = getUnpaidInvoices,
                                              !.remaining = getUnpaidInvoices]]
  /\ runs_started' = runs_started + 1
  /\ UNCHANGED <<inv_store, txn_store, match_log, serialized>>
  /\ UNCHANGED <<save_vars, ingest_vars, parser_vars, service_vars>>

\* fetch the unreconciled transactions
FetchTransactions(r) ==
  /\ run[r].pc = "fetched"
  /\ run' = [run EXCEPT ![r].pc = "scan", ![r].txns = getUnreconciledTransactions,
                        ![r].k = 1]
  /\ UNCHANGED <<inv_store, txn_store, match_log, serialized, runs_started>>
  /\ UNCHANGED <<save_vars, ingest_vars, parser_vars, service_vars>>

\* one transaction of the run: skipped, left unmatched, or matched with the
\* first remaining invoice and written back
ReconcileTransaction(r) ==
  /\ run[r].pc = "scan"
  /\ run[r].k <= Len(run[r].txns)
  /\ LET t == run[r].txns[run[r].k]
         j == IF Eligible(t) THEN FirstMatch(t, run[r].remaining) ELSE 0
     IN  IF j = 0
         THEN /\ run' = [run EXCEPT ![r].k = @ + 1]
              /\ UNCHANGED <<inv_store, txn_store, match_log>>
         ELSE LET i == run[r].remaining[j]
              IN  /\ inv_store' = MarkInvoice(inv_store, i, txn_store[t].date)
                  /\ txn_store' = MarkTransaction(txn_store, t, i)
                  /\ run' = [run EXCEPT ![r].k = @ + 1,
                                        ![r].remaining = RemoveCandidate(@, j),
                                        ![r].count = @ + 1,
                                        ![r].pairs = Append(@, <<t, i>>)]
                  /\ match_log' = Append(match_log, [run |-> r, txn |-> t, inv |-> i])
  /\ UNCHANGED <<serialized, runs_started, save_vars, ingest_vars, parser_vars, service_vars>>

\* the run returns MatchResult{count, pairs}
FinishRun(r) ==
  /\ run[r].pc = "scan"
  /\ run[r].k > Len(run[r].txns)
  /\ run' = [run EXCEPT ![r].pc = "done"]
  /\ UNCHANGED <<inv_store, txn_store, match_log, serialized, runs_started>>
  /\ UNCHANGED <<save_vars, ingest_vars, parser_vars, service_vars>>

(***************************************************************************)
(* StatementIngestor (spec section 4.7): parse(tabularPayload).  The       *)
(* payload is its sequence of lines, the header first.                     *)
(***************************************************************************)
MaxRows == 4

HeaderLine == <<"d","a","t","e",",","d","e","s","c","r","i","p","t","i","o","n",",","a","m","o","u","n","t">>

\* the sampled statement rows: two well-formed ones, one with a bad date, one
\* with a non-numeric amount and one with a missing column
Row1 == <<"0","3","/","0","3","/","2","0","2","4",",","P","a","y","m","e","n","t"," ","t","o"," ","A","C","M","E"," ","L","L","C",",","-","2","5","0",".","0","0">>
Row2 == <<"0","4","/","0","4","/","2","0","2","4",",","Z","e","d"," ","t","r","a","n","s","f","e","r",",","1","0","0",".","5">>
BadDateRow    == <<"x","x","/","0","3","/","2","0","2","4",",","Z","e","d"," ","t","r","a","n","s","f","e","r",",","-","5",".","0","0">>
BadAmountRow  == <<"0","3","/","0","3","/","2","0","2","4",",","Z","e","d"," ","t","r","a","n","s","f","e","r",",","a","b","c">>
ShortRow      == <<"0","3","/","0","3","/","2","0","2","4",",","Z","e","d"," ","t","r","a","n","s","f","e","r">>

GoodRows == {Row1, Row2}
BadRows  == {BadDateRow, BadAmountRow, ShortRow}
SampleRows == GoodRows \cup BadRows

RECURSIVE SeqsUpTo(_, _)
SeqsUpTo(S0, n) ==
  IF n = 0 THEN {<<>>}
  ELSE SeqsUpTo(S0, n - 1) \cup {Append(q, x) : q \in {p \in SeqsUpTo(S0, n - 1) : Len(p) = n - 1}, x \in S0}

IngestInit ==
  /\ payload \in {<<HeaderLine>> \o rows : rows \in SeqsUpTo(SampleRows, MaxRows)}
  /\ pos = 2
  /\ records = <<>>
  /\ dropped = 0
  /\ ing_pc = "parsing"

\* line.split(',')
RECURSIVE SplitOn(_, _)
SplitOn(line, sep) ==
  LET at == {i \in 1..Len(line) : line[i] = sep}
  IN  IF at = {} THEN <<line>>
      ELSE LET k == CHOOSE i \in at : \A j \in at : i <= j
           IN  <<SubSeq(line, 1, k - 1)>> \o SplitOn(SubSeq(line, k + 1, Len(line)), sep)

\* the pattern matches the whole of s
FullMatch(r, s) ==
  LET ms == ReMatch(r, s, [p |-> 1, g |-> <<0, 0>>])
  IN  \E i \in 1..Len(ms) : ms[i].p = Len(s) + 1

NumericDate ==
  Alt(<<Cat(<<Rep(D, 1, 2), DateSep, Rep(D, 1, 2), DateSep, Rep(D, 2, 2)>>),
        Cat(<<Rep(D, 1, 2), DateSep, Rep(D, 1, 2), DateSep, Rep(D, 4, 4)>>),
        Cat(<<Rep(D, 4, 4), DateSep, Rep(D, 1, 2), DateSep, Rep(D, 1, 2)>>)>>)

\* the natural-date parser on a statement field: <<date>>, or <<>> for None
ParseDateField(f) ==
  IF FullMatch(NumericDate, strip(f)) THEN dateparser_parse(strip(f)) ELSE <<>>

DecimalNumber ==
  Cat(<<Opt(Chr({"+", "-"})), Plus(D), Opt(Cat(<<Chr({"."}), Rep(D, 1, 2)>>))>>)

\* the amount parsed as a decimal, in hundredths: <<amount>>, or <<>> when
\* the field is not numeric
ParseDecimalField(f) ==
  LET x == strip(f)
  IN  IF ~FullMatch(DecimalNumber, x) THEN <<>>
      ELSE LET neg  == x[1] = "-"
               u    == IF x[1] \in {"+", "-"} THEN Tail(x) ELSE x
               dots == {i \in 1..Len(u) : u[i] = "."}
               k    == IF dots = {} THEN Len(u) + 1 ELSE CHOOSE i \in dots : TRUE
               frac == SubSeq(u, k + 1, Len(u))
               val  == 100 * DigitsVal(SubSeq(u, 1, k - 1))
                       + (IF Len(frac) = 1 THEN 10 * DigitsVal(frac) ELSE DigitsVal(frac))
           IN  <<IF neg THEN -val ELSE val>>

\* a row parser that does not check the date
ParseRowAnyDate(line) ==
  LET cols == SplitOn(line, ",")
  IN  IF Len(cols) < 3 \/ ParseDecimalField(cols[3]) = <<>> THEN <<>>
      ELSE <<[date |-> IF ParseDateField(cols[1]) = <<>> THEN NoDate
                       ELSE ParseDateField(cols[1])[1],
              description |-> cols[2],
              amount |-> ParseDecimalField(cols[3])[1],
              reconciled |-> FALSE, matchedInvoiceId |-> 0]>>

\* one row: <<BankTransactionRecord>>, or <<>> when the row fails to parse
\* (missing column, bad date, non-numeric amount)
ParseRow(line) ==
  LET cols == SplitOn(line, ",")
  IN  IF Len(cols) < 3 THEN <<>>
      ELSE IF ParseDateField(cols[1]) = <<>> \/ ParseDecimalField(cols[3]) = <<>> THEN <<>>
      ELSE <<[date |-> ParseDateField(cols[1])[1],
              description |-> cols[2],
              amount |-> ParseDecimalField(cols[3])[1],
              reconciled |-> FALSE, matchedInvoiceId |-> 0]>>

\* the next row of the payload is parsed: appended, or logged and dropped
IngestRow ==
  /\ ing_pc = "parsing"
  /\ pos <= Len(payload)
  /\ records' = records \o ParseRow(payload[pos])
  /\ dropped' = dropped + (IF ParseRow(payload[pos]) = <<>> THEN 1 ELSE 0)
  /\ pos' = pos + 1
  /\ UNCHANGED <<payload, ing_pc, save_vars, recon_vars, parser_vars, service_vars>>

\* parse returns the records
IngestReturn ==
  /\ ing_pc = "parsing"
  /\ pos > Len(payload)
  /\ ing_pc' = "done"
  /\ UNCHANGED <<payload, pos, records, dropped, save_vars, recon_vars, parser_vars, service_vars>>

ReconNext ==
  \/ \E r \in Threads : StartRun(r)
  \/ \E r \in Threads : FetchTransactions(r)
  \/ \E r \in Threads : ReconcileTransaction(r)
  \/ \E r \in Threads : FinishRun(r)

IngestNext ==
  \/ IngestRow
  \/ IngestReturn

(***************************************************************************)
(* extract_structured_data, statement by statement, as process_invoice_image*)
(* calls it on annotations[0].description.strip(), and the save_invoice    *)
(* that follows.                                                           *)
(***************************************************************************)
TwoFigures == <<"T","o","t","a","l",":"," ","1","0","0",".","0","0","\n","A","E","D"," ","2","5","0",".","0","0">>
TotalOnly == <<"T","o","t","a","l",":"," ","9","5","0",".","0","0">>
TotalPlain1500 == <<"T","o","t","a","l",":"," ","1","5","0","0">>
TotalPlain1500_00 == <<"T","o","t","a","l",":"," ","1","5","0","0",".","0","0">>
TotalTooLarge == <<"T","o","t","a","l",":"," ","2",",","0","0","0",",","0","0","0",".","0","0">>
NoFigures == <<"h","e","l","l","o">>
BlankOnly == <<" ","\n">>
TaxiFuelRent == <<"T","a","x","i"," ","f","u","e","l"," ","r","e","n","t">>
RentAndTaxi == <<"R","e","n","t"," ","a","n","d"," ","t","a","x","i">>
OfficeSpaceTaxiFuel == <<"O","f","f","i","c","e"," ","s","p","a","c","e"," ","t","a","x","i"," ","f","u","e","l">>
FullInvoice == <<"A","c","m","e"," ","L","L","C","\n","I","n","v","#","A","-","1","2","\n","D","a","t","e",":","1","/","2","/","2","0","2","4","\n","T","o","t","a","l",":","1","0","5",".","0","0","\n","R","e","n","t">>

\* texts with dates: the day of the call, a year below the floor followed by
\* a later one, and a due date below the floor
DatedToday == <<"D","a","t","e",":"," ","3","/","3","/","2","0","2","4">>
OldThenNewDate == <<"D","a","t","e",":"," ","1","/","2","/","2","0","1","9","\n","3","/","4","/","2","0","2","1">>
OldDueDate == <<"P","a","y","m","e","n","t"," ","d","u","e",":"," ","1","/","2","/","2","0","1","9">>

\* annotations[0].description of the sampled photographs
ExtractDescriptions ==
  {TwoFigures, TotalOnly, TotalPlain1500, TotalPlain1500_00, TotalTooLarge, NoFigures, BlankOnly, TaxiFuelRent, RentAndTaxi, OfficeSpaceTaxiFuel, FullInvoice,
   DatedToday, OldThenNewDate, OldDueDate}

\* datetime.now() during the call
ExtractDay == Today(1)

NeedsReviewUnset == FALSE

\* needs_review: bool = True
NeedsReviewDefault == TRUE

\* InvoiceData(raw_text=ocr_text): the fields that the parser, the validation,
\* the score and save_invoice read
InvoiceDataDefault(raw_text) ==
  [raw_text          |-> raw_text,
   invoice_number    |-> <<>>,
   amount            |-> 0,
   subtotal          |-> 0,
   vat_amount        |-> 0,
   date              |-> EmptyDate,
   due_date          |-> <<>>,
   vendor_name       |-> <<>>,
   vendor_trn        |-> <<>>,
   vendor_phone      |-> <<>>,
   category          |-> MISCELLANEOUS,
   confidence        |-> FlZero,
   needs_review      |-> NeedsReviewDefault,
   validation_errors |-> <<>>]

\* the assignments of the try block, in their order
FieldOrder ==
  <<"amount", "subtotal", "vat_amount", "invoice_number", "date", "due_date",
    "vendor_name", "vendor_trn", "vendor_phone", "vendor_address", "category",
    "description", "line_items">>

\* one assignment; vendor_address, description and line_items are fields that
\* nothing modelled here reads
AssignField(data, field, text, today) ==
  CASE field = "amount"         -> [data EXCEPT !.amount = extract_amount(text)]
    [] field = "subtotal"       -> [data EXCEPT !.subtotal = extract_subtotal(text)]
    [] field = "vat_amount"     -> [data EXCEPT !.vat_amount = extract_vat(text)]
    [] field = "invoice_number" -> [data EXCEPT !.invoice_number = extract_invoice_number(text)]
    [] field = "date"           -> [data EXCEPT !.date = extract_date(text, today)]
    [] field = "due_date"       -> [data EXCEPT !.due_date = extract_due_date(text)]
    [] field = "vendor_name"    -> [data EXCEPT !.vendor_name = extract_vendor_name(text)]
    [] field = "vendor_trn"     -> [data EXCEPT !.vendor_trn = extract_trn(text)]
    [] field = "vendor_phone"   -> [data EXCEPT !.vendor_phone = extract_phone(text)]
    [] field = "category"       -> [data EXCEPT !.category = categorize_expense(text)]
    [] OTHER                    -> data

ExtractInit ==
  /\ \E d \in ExtractDescriptions :
        /\ ex_text = strip(d)
        /\ ex_data = InvoiceDataDefault(strip(d))
  /\ ex_pc = "extract"
  /\ ex_step = 1
  /\ stored = <<>>

\* one "invoice_data.<field> = self._extract_<field>(ocr_text)"
ExtractField ==
  /\ ex_pc = "extract"
  /\ ex_step <= Len(FieldOrder)
  /\ ex_data' = AssignField(ex_data, FieldOrder[ex_step], ex_text, ExtractDay)
  /\ ex_step' = ex_step + 1
  /\ UNCHANGED <<ex_text, ex_pc, stored>>
  /\ UNCHANGED <<save_vars, recon_vars, ingest_vars, score_vars, service_vars>>

ConfidenceKept == FlZero

\* invoice_data.confidence = 0.1
FailureConfidence == FlFromRatio(1, 10)

\* an extraction step raises: the except branch appends the finding, sets the
\* confidence to 0.1 and the record is returned as it stands
ExtractionRaises ==
  /\ ex_pc = "extract"
  /\ ex_step <= Len(FieldOrder)
  /\ ex_data' = [ex_data EXCEPT !.validation_errors = Append(@, ExtractionError),
                                          !.confidence = FailureConfidence]
  /\ ex_pc' = "returned"
  /\ UNCHANGED <<ex_text, ex_step, stored>>
  /\ UNCHANGED <<save_vars, recon_vars, ingest_vars, score_vars, service_vars>>

\* lines 387-389 on a record: validation_errors, then confidence, then
\* needs_review = confidence < 0.75
Scored(data0, today) ==
  CHOOSE r \in UNION
    {{[v EXCEPT !.confidence = c, !.needs_review = FlLt(c, Float0_75)]
      : c \in {calculate_confidence(v, today)}}
     : v \in {[d EXCEPT !.validation_errors = validate_data(d, today)] : d \in {data0}}}
    : TRUE

\* validation_errors, confidence and needs_review, then return
ValidateAndScore ==
  /\ ex_pc = "extract"
  /\ ex_step = Len(FieldOrder) + 1
  /\ ex_data' = Scored(ex_data, ExtractDay)
  /\ ex_pc' = "returned"
  /\ UNCHANGED <<ex_text, ex_step, stored>>
  /\ UNCHANGED <<save_vars, recon_vars, ingest_vars, score_vars, service_vars>>

\* db_manager.save_invoice(from_number, invoice_data) on the returned record
SaveExtracted(user) ==
  /\ ex_pc = "returned"
  /\ stored' = InsertOrReplace(stored, NewRow(1, user, ex_data))
  /\ ex_pc' = "saved"
  /\ UNCHANGED <<ex_text, ex_data, ex_step>>
  /\ UNCHANGED <<save_vars, recon_vars, ingest_vars, score_vars, service_vars>>

ExtractNext ==
  \/ ExtractField
  \/ ExtractionRaises
  \/ ValidateAndScore
  \/ \E user \in Users : SaveExtracted(user)

(***************************************************************************)
(* _validate_data and _calculate_confidence on records with given fields.  *)
(***************************************************************************)
\* datetime.now() during the calls
ScoreDay == Today(1)

\* the sampled field values.  Amounts in hundredths; the pairs <<vat_amount,
\* subtotal>> have a difference from 5% of 0, of 1.00 (6.00 of 100.00, and
\* 0.20 of 24.00), of 1.01, and a pair without subtotal and one without both
Amounts        == {0, 10500}
VendorNames    == {UnknownVendor, <<"A","c","m","e">>}
InvoiceNumbers == {<<>>, <<"A","-","1","2">>}
InvoiceDates   == {Today(0), Today(1), Today(2)}
VatPairs       == {<<0, 0>>, <<500, 0>>, <<500, 10000>>, <<600, 10000>>,
                   <<20, 2400>>, <<601, 10000>>}
Categories     == {MISCELLANEOUS, uae_categories[2][1]}
SampleTrn      == <<"1","0","0","0","0","0","0","0","0","0","0","0","0","0","3">>
SamplePhone    == <<"+","9","7","1","4","1","2","3","4","5","6","7">>
\* vendor_trn, vendor_phone and due_date: none, one, two or all three present
BonusSets      == {<<<<>>, <<>>, <<>>>>, <<SampleTrn, <<>>, <<>>>>,
                   <<SampleTrn, SamplePhone, <<>>>>, <<SampleTrn, SamplePhone, <<Today(2)>>>>}

ScoreInit ==
  /\ \E a \in Amounts, v \in VendorNames, n \in InvoiceNumbers, d \in InvoiceDates,
        p \in VatPairs, c \in Categories, b \in BonusSets :
        sc_data = [InvoiceDataDefault(<<>>) EXCEPT
                     !.amount = a, !.vendor_name = v, !.invoice_number = n, !.date = d,
                     !.vat_amount = p[1], !.subtotal = p[2], !.category = c,
                     !.vendor_trn = b[1], !.vendor_phone = b[2], !.due_date = b[3]]
  /\ sc_pc = "fields"
  /\ sc_before = <<>>

\* lines 387-389 on the record
ScoreRecord ==
  /\ sc_pc = "fields"
  /\ sc_data' = Scored(sc_data, ScoreDay)
  /\ sc_pc' = "scored"
  /\ UNCHANGED sc_before
  /\ UNCHANGED <<save_vars, recon_vars, ingest_vars, extract_vars, service_vars>>

\* the required fields that the record lacks, and the record with one supplied
MissingFields(data) ==
  (IF data.amount = 0 THEN {"amount"} ELSE {})
  \cup (IF data.vendor_name = UnknownVendor THEN {"vendor_name"} ELSE {})
  \cup (IF data.invoice_number = <<>> THEN {"invoice_number"} ELSE {})

Supplied(data, field) ==
  CASE field = "amount"         -> [data EXCEPT !.amount = CHOOSE a \in Amounts : a > 0]
    [] field = "vendor_name"    -> [data EXCEPT !.vendor_name = CHOOSE v \in VendorNames : v # UnknownVendor]
    [] field = "invoice_number" -> [data EXCEPT !.invoice_number = CHOOSE n \in InvoiceNumbers : n # <<>>]

\* lines 387-389 again on the record that differs in one required field,
\* which was missing and is now present, once for a record; sc_before keeps
\* the confidence of the record without the field
RescoreWithField(field) ==
  /\ sc_pc = "scored"
  /\ sc_before = <<>>
  /\ field \in MissingFields(sc_data)
  /\ sc_data' = Scored(Supplied(sc_data, field), ScoreDay)
  /\ sc_before' = <<sc_data.confidence>>
  /\ UNCHANGED sc_pc
  /\ UNCHANGED <<save_vars, recon_vars, ingest_vars, extract_vars, service_vars>>

ScoreNext ==
  \/ ScoreRecord
  \/ \E field \in {"amount", "vendor_name", "invoice_number"} : RescoreWithField(field)

(***************************************************************************)
(* TransactionService: create_transaction statement by statement and       *)
(* get_transaction, over the SecurityService and the BlockchainService.    *)
(* A dict is a function on its keys, None a record of its own; the amount  *)
(* is in hundredths and a uuid4 is the next unused number.                 *)
(***************************************************************************)
MaxTransactions == 2

None == [none |-> TRUE]
EmptyDict == [k \in {} |-> TRUE]
\* dict.get(key)
DictGet(d, key) == IF key \in DOMAIN d THEN d[key] ELSE None

\* class TransactionType
TransactionType == {"deposit", "withdrawal", "transfer", "investment", "tax_payment"}
TypeInputs == {"deposit", "refund"}
AmountInputs == {-10000, 0, 100000}

\* the two SecurityService classes of the repository: validate_transaction of
\* the first is a plain function, of the second a coroutine function
SecurityServices == {"placeholder_checks", "settings_checks"}
Coroutine == [coroutine |-> TRUE]
\* obj[key] raises TypeError on a coroutine object
Subscriptable(obj) == "coroutine" \notin DOMAIN obj

ErrorText == <<"c","h","e","c","k"," ","e","r","r","o","r">>
validate_transaction(service, transaction, raises) ==
  IF service = "settings_checks" THEN Coroutine
  ELSE IF raises THEN [valid |-> FALSE, error |-> ErrorText]
  ELSE [transaction_id |-> transaction.id, valid |-> TRUE]

generate_hash(transaction) == [prefix |-> "0x", id |-> transaction.id, suffix |-> "abc123"]

record_transaction(transaction, raises) ==
  IF raises THEN EmptyDict
  ELSE [transaction_id |-> transaction.id,
        blockchain_hash |-> generate_hash(transaction),
        status |-> "confirmed"]

verify_transaction(blockchain_hash, raises) ==
  IF raises THEN EmptyDict
  ELSE [hash |-> blockchain_hash, verified |-> TRUE, confirmations |-> 6]

\* "not d" of a dict
AlwaysResult(d) == FALSE
NoResult(d) == DOMAIN d = {}

SecurityValidationFailed == <<"S","e","c","u","r","i","t","y"," ","v","a","l","i","d","a","t","i","o","n"," ","f","a","i","l","e","d",":"," ">>
UnknownError == <<"U","n","k","n","o","w","n"," ","e","r","r","o","r">>
FailedToRecord == <<"F","a","i","l","e","d"," ","t","o"," ","r","e","c","o","r","d"," ","t","r","a","n","s","a","c","t","i","o","n"," ","o","n"," ","b","l","o","c","k","c","h","a","i","n">>
NotAValidTransactionType == <<"'","r","e","f","u","n","d","'"," ","i","s"," ","n","o","t"," ","a"," ","v","a","l","i","d"," ","T","r","a","n","s","a","c","t","i","o","n","T","y","p","e">>
NotSubscriptable == <<"'","c","o","r","o","u","t","i","n","e","'"," ","o","b","j","e","c","t"," ","i","s"," ","n","o","t"," ","s","u","b","s","c","r","i","p","t","a","b","l","e">>

NoData == [type |-> "", amount |-> 0]
NoOutcome == [kind |-> "none", exc |-> "", msg |-> <<>>, value |-> None]
Returned(value) == [kind |-> "returned", exc |-> "", msg |-> <<>>, value |-> value]
Raised(exc, msg) == [kind |-> "raised", exc |-> exc, msg |-> msg, value |-> None]

TxInit ==
  /\ tx_security \in SecurityServices
  /\ tx_data = NoData
  /\ tx = None
  /\ tx_pc = "idle"
  /\ tx_log = <<>>
  /\ tx_result = NoOutcome
  /\ tx_next_id = 1
  /\ tx_recorded = {}
  /\ tx_returned = {}
  /\ tx_got = <<>>

\* lines 37-51: the id, then the Transaction object
CreateTransaction(type, amount) ==
  /\ tx_pc \in {"idle", "done"}
  /\ tx_next_id <= MaxTransactions
  /\ tx_next_id' = tx_next_id + 1
  /\ tx_data' = [type |-> type, amount |-> amount]
  /\ tx_log' = <<>>
  /\ IF type \in TransactionType
     THEN /\ tx' = [id |-> tx_next_id, type |-> type, amount |-> amount,
                    status |-> "pending", blockchain_hash |-> None]
          /\ tx_result' = NoOutcome
          /\ tx_pc' = "validate"
     ELSE /\ tx' = None
          /\ tx_result' = Raised("ValueError", NotAValidTransactionType)
          /\ tx_pc' = "done"
  /\ UNCHANGED <<tx_security, tx_recorded, tx_returned, tx_got>>
  /\ UNCHANGED <<save_vars, recon_vars, ingest_vars, parser_vars, rl_vars>>

\* lines 53-57
ValidateSecurity(raises) ==
  /\ tx_pc = "validate"
  /\ LET security_validation == validate_transaction(tx_security, tx, raises)
     IN  IF ~Subscriptable(security_validation)
         THEN /\ tx_result' = Raised("TypeError", NotSubscriptable)
              /\ tx_pc' = "done"
              /\ tx_log' = tx_log
         ELSE IF ~security_validation.valid
         THEN /\ tx_result' = Raised("ValueError",
                                SecurityValidationFailed \o
                                (IF DictGet(security_validation, "error") = None
                                 THEN UnknownError ELSE security_validation.error))
              /\ tx_pc' = "done"
              /\ tx_log' = Append(tx_log, "validation failed")
         ELSE /\ tx_result' = tx_result
              /\ tx_pc' = "record"
              /\ tx_log' = Append(tx_log, "validation passed")
  /\ UNCHANGED <<tx_security, tx_data, tx, tx_next_id, tx_recorded, tx_returned, tx_got>>
  /\ UNCHANGED <<save_vars, recon_vars, ingest_vars, parser_vars, rl_vars>>

\* lines 59-63
RecordOnBlockchain(raises) ==
  /\ tx_pc = "record"
  /\ LET blockchain_result == record_transaction(tx, raises)
     IN  IF NoResult(blockchain_result)
         THEN /\ tx_result' = Raised("ValueError", FailedToRecord)
              /\ tx_pc' = "done"
              /\ tx_log' = Append(tx_log, "no recording result")
              /\ UNCHANGED <<tx, tx_recorded>>
         ELSE /\ tx_result' = tx_result
              /\ tx_pc' = "complete"
              /\ tx_log' = Append(tx_log, "recording result")
              /\ tx_recorded' = tx_recorded \cup {tx.id}
              \* line 66
              /\ tx' = [tx EXCEPT !.blockchain_hash = DictGet(blockchain_result, "blockchain_hash")]
  /\ UNCHANGED <<tx_security, tx_data, tx_next_id, tx_returned, tx_got>>
  /\ UNCHANGED <<save_vars, recon_vars, ingest_vars, parser_vars, rl_vars>>

\* lines 67-72
CompleteTransaction ==
  /\ tx_pc = "complete"
  /\ tx' = [tx EXCEPT !.status = "completed"]
  /\ tx_result' = Returned(tx')
  /\ tx_returned' = tx_returned \cup {tx'}
  /\ tx_pc' = "done"
  /\ UNCHANGED <<tx_security, tx_data, tx_log, tx_next_id, tx_recorded, tx_got>>
  /\ UNCHANGED <<save_vars, recon_vars, ingest_vars, parser_vars, rl_vars>>

get_transaction(transaction_id, raises) ==
  LET blockchain_verification == verify_transaction(transaction_id, raises)
  IN  IF NoResult(blockchain_verification) THEN None
      ELSE DictGet(blockchain_verification, "transaction")

GetTransaction(transaction_id, raises) ==
  /\ tx_pc \in {"idle", "done"}
  /\ tx_got' = <<[id |-> transaction_id, value |-> get_transaction(transaction_id, raises)]>>
  /\ UNCHANGED <<tx_security, tx_data, tx, tx_pc, tx_log, tx_result, tx_next_id,
                 tx_recorded, tx_returned>>
  /\ UNCHANGED <<save_vars, recon_vars, ingest_vars, parser_vars, rl_vars>>

TxNext ==
  \/ \E type \in TypeInputs, amount \in AmountInputs : CreateTransaction(type, amount)
  \/ \E raises \in BOOLEAN : ValidateSecurity(raises)
  \/ \E raises \in BOOLEAN : RecordOnBlockchain(raises)
  \/ CompleteTransaction
  \/ \E transaction_id \in 1..MaxTransactions, raises \in BOOLEAN :
       GetTransaction(transaction_id, raises)

TxIdle ==
  /\ tx_security = "placeholder_checks"
  /\ tx_data = NoData
  /\ tx = None
  /\ tx_pc = "idle"
  /\ tx_log = <<>>
  /\ tx_result = NoOutcome
  /\ tx_next_id = 1
  /\ tx_recorded = {}
  /\ tx_returned = {}
  /\ tx_got = <<>>

(***************************************************************************)
(* RateLimitMiddleware.dispatch.  time.time() is a whole number of seconds *)
(* that does not run backwards; rl_forwarded is the list of the times at   *)
(* which call_next was reached, per client, kept for the properties.       *)
(***************************************************************************)
Clients == {"10.0.0.1", "10.0.0.2"}

\* rate_limits["standard"]: the number of requests per minute, taken small
\* enough for the runs to go past it (100 in the middleware)
StandardLimit == 3
\* current_time - 60
WindowSeconds == 60

MaxRequests == StandardLimit + 2
MaxTicks == 3
\* the clock between two requests: within the minute, exactly a minute
ClockSteps == {1, WindowSeconds}

\* the two answers of dispatch: JSONResponse(status_code=429), or whatever
\* call_next(request) returns
TooManyRequests == "429"
Forwarded == "call_next"
NoResponse == [client |-> "", time |-> 0, status |-> ""]

RateLimitInit ==
  /\ rl_now = 0
  /\ request_history = [ip \in {} |-> <<>>]
  /\ rl_forwarded = [ip \in Clients |-> <<>>]
  /\ rl_last = NoResponse
  /\ rl_requests = 0
  /\ rl_ticks = 0

\* lines 94-97
CleanOldRequests(history, minute_ago) ==
  [ip \in {c \in DOMAIN history : history[c][Len(history[c])] > minute_ago} |-> history[ip]]

\* lines 100-101
RecentRequests(history, client_ip, minute_ago) ==
  SelectSeq(IF client_ip \in DOMAIN history THEN history[client_ip] ELSE <<>>,
            LAMBDA t : t > minute_ago)

LimitPassed(count, limit) == count > limit

\* line 104
LimitExceeded(count, limit) == count >= limit

Dispatch(client_ip) ==
  /\ rl_requests < MaxRequests
  /\ rl_requests' = rl_requests + 1
  /\ LET current_time == rl_now
         minute_ago   == current_time - WindowSeconds
         cleaned      == CleanOldRequests(request_history, minute_ago)
         requests     == RecentRequests(cleaned, client_ip, minute_ago)
     IN  IF LimitExceeded(Len(requests), StandardLimit)
         THEN /\ request_history' = cleaned
              /\ rl_last' = [client |-> client_ip, time |-> current_time,
                             status |-> TooManyRequests]
              /\ UNCHANGED rl_forwarded
         ELSE /\ request_history' =
                   [ip \in DOMAIN cleaned \cup {client_ip} |->
                      IF ip = client_ip THEN Append(requests, current_time) ELSE cleaned[ip]]
              /\ rl_last' = [client |-> client_ip, time |-> current_time,
                             status |-> Forwarded]
              /\ rl_forwarded' = [rl_forwarded EXCEPT ![client_ip] = Append(@, current_time)]
  /\ UNCHANGED <<rl_now, rl_ticks>>
  /\ UNCHANGED <<save_vars, recon_vars, ingest_vars, parser_vars, tx_vars>>

\* time passes between two requests
AdvanceClock(seconds) ==
  /\ rl_ticks < MaxTicks
  /\ rl_ticks' = rl_ticks + 1
  /\ rl_now' = rl_now + seconds
  /\ UNCHANGED <<request_history, rl_forwarded, rl_last, rl_requests>>
  /\ UNCHANGED <<save_vars, recon_vars, ingest_vars, parser_vars, tx_vars>>

RateLimitNext ==
  \/ \E client_ip \in Clients : Dispatch(client_ip)
  \/ \E seconds \in ClockSteps : AdvanceClock(seconds)

RateLimitIdle == RateLimitInit

ExtractIdle ==
  /\ ex_text = <<>>
  /\ ex_data = InvoiceDataDefault(<<>>)
  /\ ex_pc = "idle"
  /\ ex_step = 0
  /\ stored = <<>>

ScoreIdle ==
  /\ sc_data = InvoiceDataDefault(<<>>)
  /\ sc_pc = "idle"
  /\ sc_before = <<>>

(***************************************************************************)
(* The specifications: each part runs with the other parts at rest.        *)
(***************************************************************************)
ReconIdle ==
  /\ inv_store = <<>>
  /\ txn_store = <<>>
  /\ run = [r \in Threads |-> IdleRun]
  /\ match_log = <<>>
  /\ serialized = TRUE
  /\ runs_started = 0

IngestIdle ==
  /\ payload = <<HeaderLine>>
  /\ pos = 2
  /\ records = <<>>
  /\ dropped = 0
  /\ ing_pc = "parsing"

SaveStart    == SaveInit /\ ReconIdle /\ IngestIdle /\ ExtractIdle /\ ScoreIdle /\ TxIdle /\ RateLimitIdle
ReconStart   == ReconInit /\ parsed = <<>> /\ SaveIdle /\ IngestIdle /\ ExtractIdle /\ ScoreIdle /\ TxIdle /\ RateLimitIdle
IngestStart  == IngestInit /\ parsed = <<>> /\ SaveIdle /\ ReconIdle /\ ExtractIdle /\ ScoreIdle /\ TxIdle /\ RateLimitIdle
ExtractStart == ExtractInit /\ parsed = <<>> /\ SaveIdle /\ ReconIdle /\ IngestIdle /\ ScoreIdle /\ TxIdle /\ RateLimitIdle
TxStart      == TxInit /\ parsed = <<>> /\ SaveIdle /\ ReconIdle /\ IngestIdle /\ ExtractIdle /\ ScoreIdle /\ RateLimitIdle
RateLimitStart == RateLimitInit /\ parsed = <<>> /\ SaveIdle /\ ReconIdle /\ IngestIdle /\ ExtractIdle /\ ScoreIdle /\ TxIdle
ScoreStart   == ScoreInit /\ parsed = <<>> /\ SaveIdle /\ ReconIdle /\ IngestIdle /\ ExtractIdle /\ TxIdle /\ RateLimitIdle

SaveSpec   == SaveStart /\ [][SaveNext]_vars
ReconSpec  == ReconStart /\ [][ReconNext]_vars
IngestSpec == IngestStart /\ [][IngestNext]_vars
ExtractSpec == ExtractStart /\ [][ExtractNext]_vars
ScoreSpec  == ScoreStart /\ [][ScoreNext]_vars
TxSpec     == TxStart /\ [][TxNext]_vars
RateLimitSpec == RateLimitStart /\ [][RateLimitNext]_vars

(***************************************************************************)
(* Properties of invoice submission.                                       *)
(***************************************************************************)
RowsWithHash(h) == {i \in 1..Len(invoices) : invoices[i].invoice_hash = h}

\* C1: a text that was extracted and saved, once or several times on the
\* same clock day, has exactly one persisted row that carries its
\* fingerprint, not zero and not two.
IdempotentSubmission ==
  \A x \in DOMAIN submitted :
     Cardinality(RowsWithHash(invoice_hash_of(parsed[x[1], x[2]]))) = 1

\* the same text has been saved twice on one clock day
SubmittedTwice == \E x \in DOMAIN submitted : submitted[x] = 2

\* C2: a submission whose fingerprint is already stored leaves the stored
\* rows as they were and is answered with a distinct duplicate-rejected
\* outcome.
DuplicateRejectedBeforePersistence ==
  [][(clock' = clock /\ last'.dup)
       => (invoices' = invoices /\ outcome'.reply = "duplicate_rejected")]_vars

\* C3: no two persisted rows of the same owner have the same fingerprint.
FingerprintUniquePerOwner ==
  \A i, j \in 1..Len(invoices) :
     (i # j /\ invoices[i].user_id = invoices[j].user_id)
       => invoices[i].invoice_hash # invoices[j].invoice_hash

\* an owner has saved an invoice whose fingerprint that owner had stored
OwnerResubmitted == outcome.saved /\ last.dup /\ last.owner = last.user

\* runs of blanks collapsed to one blank, blanks at the ends removed
RECURSIVE CollapseBlanks(_)
CollapseBlanks(s) ==
  IF s = <<>> THEN <<>>
  ELSE IF Head(s) \in SpaceSet
       THEN (IF Len(s) > 1 /\ s[2] \notin SpaceSet THEN <<" ">> ELSE <<>>)
            \o CollapseBlanks(Tail(s))
       ELSE <<Head(s)>> \o CollapseBlanks(Tail(s))

NormalizeBlanks(s) == CollapseBlanks(strip(s))

\* C4: the fingerprint depends on the normalized vendor, amount and date only:
\* stored invoices whose vendor names differ only in letter case (same amount
\* and date), or whose raw texts differ only in blanks (same clock day), have
\* the same fingerprint.
FingerprintOfNormalizedFields ==
  \A i, j \in 1..Len(invoices) :
     /\ (/\ lower(invoices[i].vendor_name) = lower(invoices[j].vendor_name)
         /\ invoices[i].amount = invoices[j].amount
         /\ invoices[i].date = invoices[j].date)
          => invoices[i].invoice_hash = invoices[j].invoice_hash
     /\ (/\ NormalizeBlanks(invoices[i].raw_text) = NormalizeBlanks(invoices[j].raw_text)
         /\ invoices[i].date = invoices[j].date)
          => invoices[i].invoice_hash = invoices[j].invoice_hash

(***************************************************************************)
(* Properties of reconciliation.                                           *)
(***************************************************************************)
PairsOf(r) == run[r].pairs
PositionIn(q, x) == CHOOSE k \in 1..Len(q) : q[k] = x

\* the matching rule, stated on the stored records
AmountAndVendorAgree(t, i) ==
  /\ txn_store[t].amount = -inv_store[i].amount \/ txn_store[t].amount = inv_store[i].amount
  /\ Contains(lower(txn_store[t].description), lower(inv_store[i].vendor))

\* C5: within one run no invoice is reported with two transactions and no
\* transaction with two invoices, and a matched invoice is no longer among
\* the run's candidates.
OneMatchPerRecordInRun ==
  \A r \in Threads :
     /\ \A a, b \in 1..Len(PairsOf(r)) :
           a # b => /\ PairsOf(r)[a][1] # PairsOf(r)[b][1]
                    /\ PairsOf(r)[a][2] # PairsOf(r)[b][2]
     /\ \A a \in 1..Len(PairsOf(r)) :
           \A j \in 1..Len(run[r].remaining) : run[r].remaining[j] # PairsOf(r)[a][2]

\* a finished run in which a later outgoing transaction agreed with an
\* invoice that an earlier transaction had already taken
LaterTransactionFoundInvoiceTaken ==
  \E r \in Threads :
     /\ run[r].pc = "done"
     /\ \E a \in 1..Len(PairsOf(r)), k \in 1..Len(run[r].txns) :
           /\ run[r].txns[k] # PairsOf(r)[a][1]
           /\ k > PositionIn(run[r].txns, PairsOf(r)[a][1])
           /\ txn_store[run[r].txns[k]].amount < 0
           /\ AmountAndVendorAgree(run[r].txns[k], PairsOf(r)[a][2])

\* the invoices of the run's snapshot that were taken before transaction
\* number k of the run was handled
TakenBefore(r, k) ==
  {PairsOf(r)[b][2] : b \in {c \in 1..Len(PairsOf(r)) :
                               PositionIn(run[r].txns, PairsOf(r)[c][1]) < k}}

\* C6: a reported pair has a negative transaction amount whose absolute value
\* is the invoice amount and a vendor name contained, ignoring case, in the
\* description; the invoice is the first one in input order not yet taken
\* that agrees; and a handled outgoing transaction is left unmatched only
\* when no invoice not yet taken agrees with it.
PairsAreFirstAgreeingInvoices ==
  \A r \in Threads :
     /\ \A a \in 1..Len(PairsOf(r)) :
           LET t == PairsOf(r)[a][1]
               i == PairsOf(r)[a][2]
               k == PositionIn(run[r].txns, t)
           IN  /\ txn_store[t].amount < 0
               /\ -txn_store[t].amount = inv_store[i].amount
               /\ Contains(lower(txn_store[t].description), lower(inv_store[i].vendor))
               /\ \A p \in 1..(PositionIn(run[r].invoices, i) - 1) :
                     \/ run[r].invoices[p] \in TakenBefore(r, k)
                     \/ ~AmountAndVendorAgree(t, run[r].invoices[p])
     /\ \A k \in 1..Len(run[r].txns) :
           (/\ k < run[r].k
            /\ txn_store[run[r].txns[k]].amount < 0
            /\ \A a \in 1..Len(PairsOf(r)) : PairsOf(r)[a][1] # run[r].txns[k])
             => \A p \in 1..Len(run[r].invoices) :
                   \/ run[r].invoices[p] \in TakenBefore(r, k)
                   \/ ~AmountAndVendorAgree(run[r].txns[k], run[r].invoices[p])

\* a finished run reported a pair although a later invoice of its input
\* agreed with the same transaction as well
FirstOfTwoAgreeingInvoicesChosen ==
  \E r \in Threads :
     /\ run[r].pc = "done"
     /\ \E a \in 1..Len(PairsOf(r)), p \in 1..Len(run[r].invoices) :
           /\ p > PositionIn(run[r].invoices, PairsOf(r)[a][2])
           /\ AmountAndVendorAgree(PairsOf(r)[a][1], run[r].invoices[p])

\* C7: MatchResult.count is the number of reported pairs, and, with the runs
\* of the owner serialized: every reported pair has its invoice paid on the
\* transaction's date and its transaction reconciled with that invoice, a
\* paid invoice has a reconciled transaction that points at it and carries
\* that transaction's date, and a reconciled transaction points at a paid
\* invoice.
MarksSetTogether ==
  /\ \A r \in Threads : run[r].count = Len(PairsOf(r))
  /\ serialized =>
       /\ \A r \in Threads :
             \A a \in 1..Len(PairsOf(r)) :
                LET t == PairsOf(r)[a][1]
                    i == PairsOf(r)[a][2]
                IN  /\ inv_store[i].status = "paid"
                    /\ inv_store[i].paymentDate = txn_store[t].date
                    /\ txn_store[t].reconciled
                    /\ txn_store[t].matchedInvoiceId = i
       /\ \A i \in DOMAIN inv_store :
             IF inv_store[i].status = "paid"
             THEN \E t \in DOMAIN txn_store :
                     /\ txn_store[t].reconciled
                     /\ txn_store[t].matchedInvoiceId = i
                     /\ inv_store[i].paymentDate = txn_store[t].date
             ELSE inv_store[i].paymentDate = NoDate
       /\ \A t \in DOMAIN txn_store :
             txn_store[t].reconciled
               => /\ txn_store[t].matchedInvoiceId \in DOMAIN inv_store
                  /\ inv_store[txn_store[t].matchedInvoiceId].status = "paid"

\* a serialized run has returned with two pairs
RunReturnedTwoPairs ==
  serialized /\ \E r \in Threads : run[r].pc = "done" /\ run[r].count = 2

NewMatches == {match_log'[n] : n \in (Len(match_log) + 1)..Len(match_log')}

\* C8: a step matches only transactions with a negative amount, and it
\* changes no invoice and no transaction other than those of a pair it
\* matches.
OnlyMatchedRecordsChange ==
  [][/\ \A e \in NewMatches : txn_store[e.txn].amount < 0
     /\ \A i \in DOMAIN inv_store :
           inv_store'[i] # inv_store[i] => \E e \in NewMatches : e.inv = i
     /\ \A t \in DOMAIN txn_store :
           txn_store'[t] # txn_store[t] => \E e \in NewMatches : e.txn = t]_vars

\* a run has returned and left alone an incoming transaction that agrees in
\* amount and vendor with an invoice that is still unpaid
IncomingTransactionSkipped ==
  \E r \in Threads :
     /\ run[r].pc = "done"
     /\ \E k \in 1..Len(run[r].txns), i \in DOMAIN inv_store :
           /\ txn_store[run[r].txns[k]].amount > 0
           /\ ~txn_store[run[r].txns[k]].reconciled
           /\ inv_store[i].status = "unpaid"
           /\ AmountAndVendorAgree(run[r].txns[k], i)

\* one invoice matched by two transactions, or one transaction matched to
\* two invoices
DoubleMatched ==
  \E a, b \in 1..Len(match_log) :
     \/ match_log[a].inv = match_log[b].inv /\ match_log[a].txn # match_log[b].txn
     \/ match_log[a].txn = match_log[b].txn /\ match_log[a].inv # match_log[b].inv

\* C9: when the runs of the owner are serialized no invoice is ever matched
\* by two transactions and no transaction to two invoices; without the lock
\* such a state is reachable (RaceDoubleMatch).
SerializedRunsNeverDoubleMatch == serialized => ~DoubleMatched

\* two interleaved runs have double-matched
RaceDoubleMatch == ~serialized /\ DoubleMatched

(***************************************************************************)
(* Properties of statement ingestion.                                      *)
(***************************************************************************)
\* the record each well-formed sample row stands for
RecordOfRow(row) ==
  IF row = Row1
  THEN [date |-> [y |-> 2024, m |-> 3, d |-> 3],
        description |-> <<"P","a","y","m","e","n","t"," ","t","o"," ","A","C","M","E"," ","L","L","C">>,
        amount |-> -25000, reconciled |-> FALSE, matchedInvoiceId |-> 0]
  ELSE [date |-> [y |-> 2024, m |-> 4, d |-> 4],
        description |-> <<"Z","e","d"," ","t","r","a","n","s","f","e","r">>,
        amount |-> 10050, reconciled |-> FALSE, matchedInvoiceId |-> 0]

RECURSIVE ExpectedRecords(_)
ExpectedRecords(rows) ==
  IF rows = <<>> THEN <<>>
  ELSE (IF Head(rows) \in GoodRows THEN <<RecordOfRow(Head(rows))>> ELSE <<>>)
       \o ExpectedRecords(Tail(rows))

\* C10: parse returns exactly the well-formed rows as records in input order,
\* drops the header and every malformed row, and visits every row: a
\* malformed row does not end the batch.
IngestBestEffortPerRow ==
  /\ records = ExpectedRecords(SubSeq(payload, 2, pos - 1))
  /\ Len(records) + dropped = pos - 2
  /\ ing_pc = "done" => pos = Len(payload) + 1

\* a statement of three well-formed rows and one malformed row has been
\* ingested, the malformed row not last
ThreeOfFourRowsIngested ==
  /\ ing_pc = "done"
  /\ Len(payload) = 5
  /\ Len(records) = 3
  /\ dropped = 1
  /\ payload[5] \in GoodRows

(***************************************************************************)
(* Properties of extract_structured_data.                                  *)
(***************************************************************************)
\* the record that extract_structured_data returns after the whole try block
ReturnedNormally == ex_pc = "returned" /\ ex_step = Len(FieldOrder) + 1

\* the record right after "invoice_data.amount = self._extract_amount(...)"
AmountAssigned == ex_pc = "extract" /\ ex_step = 2

\* C11: the extracted amount is the largest of the captures of the amount
\* patterns that lie in 0.01 .. 1,000,000, and 0 when no capture lies in that
\* range; it is so when the amount is assigned and in the returned record.
AmountIsLargestPlausibleCandidate ==
  (AmountAssigned \/ ReturnedNormally) =>
    \E cands \in {AmountCandidates(ex_text)} :
      IF cands = {} THEN ex_data.amount = 0
      ELSE /\ ex_data.amount \in cands
           /\ \A c \in cands : c <= ex_data.amount

\* a text with the two figures 100.00 and 250.00 has been extracted: the
\* amount is 250.00
LargerOfTwoFiguresReturned ==
  /\ ReturnedNormally
  /\ ex_text = TwoFigures
  /\ AmountCandidates(ex_text) = {10000, 25000}
  /\ ex_data.amount = 25000

\* the texts "Total: X" whose only figure is X, and X in hundredths as written
TotalLabel == <<"T","o","t","a","l",":"," ">>
TotalLabelTexts == {TotalOnly, TotalPlain1500, TotalPlain1500_00}
LabelledTotal(text) == ParseAmount(SubSeq(text, Len(TotalLabel) + 1, Len(text)))

\* C12: for a text "Total: X" in which X is the only figure, the returned
\* amount is X, also when X is 1000 or more and written without a thousands
\* separator.
TotalLabelFigureExtracted ==
  (ReturnedNormally /\ ex_text \in TotalLabelTexts)
    => ex_data.amount = LabelledTotal(ex_text)

\* the record right after "invoice_data.category = self._categorize_expense(...)"
CategoryAssigned == ex_pc = "extract" /\ ex_step = 12

\* the score the categories are said to get: one point per word of every
\* keyword found in the lower-cased text
ClaimedScores(text_lower) ==
  [k \in 1..Len(uae_categories) |->
     Cardinality({jw \in (1..Len(uae_categories[k][2])) \X (1..3) :
        /\ Contains(text_lower, uae_categories[k][2][jw[1]])
        /\ jw[2] <= 1 + Cardinality({i \in 1..Len(uae_categories[k][2][jw[1]]) :
                                        uae_categories[k][2][jw[1]][i] = " "})})]

\* C13: the category is the one with the highest sum of the word counts of
\* its keywords found in the lower-cased text, the first in definition order
\* among those with the highest sum, and Miscellaneous when every sum is zero;
\* it is therefore one value for one text.
CategoryIsFirstHighestScore ==
  (CategoryAssigned \/ ReturnedNormally) =>
    \E score \in {ClaimedScores(lower(ex_text))} :
      IF \A k \in DOMAIN score : score[k] = 0
      THEN ex_data.category = MISCELLANEOUS
      ELSE \E k \in DOMAIN score :
             /\ ex_data.category = uae_categories[k][1]
             /\ \A j \in DOMAIN score : score[j] <= score[k]
             /\ \A j \in DOMAIN score : j < k => score[j] < score[k]

\* a text in which "office space" gives Office Rent two points and "taxi" and
\* "fuel" give Transportation two points has been categorized: the tie went
\* to Office Rent, the earlier category
TieWentToEarlierCategory ==
  /\ ReturnedNormally
  /\ ex_text = OfficeSpaceTaxiFuel
  /\ ClaimedScores(lower(ex_text))[2] = 2
  /\ ClaimedScores(lower(ex_text))[9] = 2
  /\ ex_data.category = uae_categories[2][1]

\* C15: on every record that extract_structured_data returns, needs_review
\* is true exactly when confidence < 0.75; the record returned from the
\* except branch, with confidence 0.1, is among them.
NeedsReviewIffBelowThreshold ==
  ex_pc \in {"returned", "saved"} =>
    (ex_data.needs_review <=> FlLt(ex_data.confidence, Float0_75))

\* extract_structured_data has returned from the except branch: the record has
\* the extraction-error finding, confidence 0.1 and needs_review set
FailureRecordReturned ==
  /\ ex_pc = "returned"
  /\ ex_step <= Len(FieldOrder)
  /\ ex_data.validation_errors = <<ExtractionError>>
  /\ ex_data.confidence = FlFromRatio(1, 10)
  /\ ex_data.needs_review

\* C19: an empty text is a hard failure: extract_structured_data returns no
\* record for it and no row is stored for it.
EmptyTextNeitherReturnedNorStored ==
  ex_text = <<>> =>
    /\ ex_pc \notin {"returned", "saved"}
    /\ stored = <<>>

\* the text has no capture of an invoice-number pattern, no known vendor and
\* no capture of a vendor pattern
NoInvoiceNumberInText(text) ==
  \A k \in 1..Len(invoice_number_patterns) : ReSearch(invoice_number_patterns[k], text) = <<>>
NoVendorInText(text) ==
  /\ KnownVendorHits(text) = {}
  /\ \A k \in 1..Len(vendor_patterns) : ReSearch(vendor_patterns[k], text) = <<>>

\* C20: for a non-empty text extract_structured_data ends by returning a
\* record: after the whole try block a field that was not found has its
\* default (amount 0, empty invoice number, "Unknown Vendor"), and after a
\* failing step the record has the extraction-error finding, confidence 0.1
\* and needs_review set.
ExtractionAlwaysReturnsRecord ==
  ex_text # <<>> =>
    /\ ex_pc \in {"extract", "returned", "saved"}
    /\ ReturnedNormally =>
         /\ AmountCandidates(ex_text) = {} => ex_data.amount = 0
         /\ NoInvoiceNumberInText(ex_text) => ex_data.invoice_number = <<>>
         /\ NoVendorInText(ex_text) => ex_data.vendor_name = UnknownVendor
    /\ (ex_pc = "returned" /\ ex_step <= Len(FieldOrder)) =>
         /\ \E i \in 1..Len(ex_data.validation_errors) :
               ex_data.validation_errors[i] = ExtractionError
         /\ ex_data.confidence = FlFromRatio(1, 10)
         /\ ex_data.needs_review

\* a text without figure, invoice number or vendor has been extracted: the
\* record has amount 0, no invoice number and the vendor "Unknown Vendor"
DefaultsReturnedForPlainText ==
  /\ ReturnedNormally
  /\ ex_text = NoFigures
  /\ AmountCandidates(ex_text) = {}
  /\ NoInvoiceNumberInText(ex_text)
  /\ NoVendorInText(ex_text)
  /\ ex_data.amount = 0
  /\ ex_data.invoice_number = <<>>
  /\ ex_data.vendor_name = UnknownVendor

(***************************************************************************)
(* Properties of _validate_data and _calculate_confidence.                 *)
(***************************************************************************)
\* |vat_amount - subtotal x 5%| > 1.00 in exact arithmetic: both sides times
\* 10000, the amounts being in hundredths
TaxDiffersBeyondTolerance(data) ==
  \E diff \in {100 * data.vat_amount - 5 * data.subtotal} :
     diff > 10000 \/ diff < -10000

\* the findings whose rule holds
FindingsThatHold(data, today) ==
  (IF data.amount <= 0 THEN {NoValidAmount} ELSE {})
  \cup (IF data.vat_amount > 0 /\ data.subtotal > 0 /\ TaxDiffersBeyondTolerance(data)
        THEN {VatMismatch} ELSE {})
  \cup (IF data.vendor_name = UnknownVendor THEN {VendorNotIdentified} ELSE {})
  \cup (IF data.invoice_number = <<>> THEN {InvoiceNumberMissing} ELSE {})
  \cup (IF DateAfter(data.date, today) THEN {FutureDate} ELSE {})

\* C14: the findings of a validated record are exactly those whose rule
\* holds, each once: no valid amount iff amount <= 0, tax mismatch iff tax and
\* subtotal are present and differ from 5% by more than 1.00 (exactly 1.00 is
\* no mismatch), vendor not identified iff the vendor is "Unknown Vendor",
\* invoice number missing iff it is empty, future date iff the date is after
\* now.
FindingsAreExactlyTheRulesThatHold ==
  sc_pc = "scored" =>
    /\ {sc_data.validation_errors[i] : i \in 1..Len(sc_data.validation_errors)}
         = FindingsThatHold(sc_data, ScoreDay)
    /\ Len(sc_data.validation_errors) = Cardinality(FindingsThatHold(sc_data, ScoreDay))

\* the signals of a record in units of 1/300: 25, 20, 15, 10, 10 and 10
\* hundredths and a third of 10 hundredths for each secondary field
SignalPoints(data, today) ==
  3 * ((IF data.amount > 0 THEN 25 ELSE 0)
       + (IF data.vendor_name # UnknownVendor THEN 20 ELSE 0)
       + (IF data.invoice_number # <<>> THEN 15 ELSE 0)
       + (IF data.date # today THEN 10 ELSE 0)
       + (IF data.vat_amount > 0 /\ data.subtotal > 0
             /\ FlLe(VatDifference(data), Float1_0) THEN 10 ELSE 0)
       + (IF data.category # MISCELLANEOUS THEN 10 ELSE 0))
  + 10 * BonusFields(data)

\* 5 hundredths for every finding, in units of 1/300
PenaltyPoints(data) == 15 * Len(data.validation_errors)

ClampedPoints(data, today) ==
  CHOOSE c \in {IF p < 0 THEN 0 ELSE IF p > 300 THEN 300 ELSE p
                : p \in {SignalPoints(data, today) - PenaltyPoints(data)}} : TRUE

\* the rounding allowed to the eight float additions: 2^-30
ScoreTolerance == [Float1_0 EXCEPT !.e = @ - 30]

\* C16: the confidence of a scored record is the sum of the weights of its
\* signals minus 0.05 for every finding, clamped to [0, 1] (up to the rounding
\* of the float additions), and so lies in [0, 1].
ConfidenceIsClampedWeightedSum ==
  sc_pc = "scored" =>
    /\ FlLe(FlZero, sc_data.confidence)
    /\ FlLe(sc_data.confidence, Float1_0)
    /\ FlLt(FlAbs(FlSub(sc_data.confidence,
                        FlFromRatio(ClampedPoints(sc_data, ScoreDay), 300))),
            ScoreTolerance)

\* a record with one signal (a date other than today) and four findings has
\* been scored: 0.10 - 0.20 is clamped to 0
PenaltyAboveSignalsClamped ==
  /\ sc_pc = "scored"
  /\ SignalPoints(sc_data, ScoreDay) = 30
  /\ Len(sc_data.validation_errors) = 4
  /\ sc_data.confidence = FlZero

\* C17: when a record that lacks a required field (amount, vendor, invoice
\* number) is scored again with that field present and every other field as
\* it was, the confidence is not lower than before.
ConfidenceNeverDropsWithField ==
  [][(sc_pc = "scored" /\ sc_pc' = "scored")
       => FlLe(sc_data.confidence, sc_data'.confidence)]_vars

\* a record without an identified vendor has been scored again with the
\* vendor, and its confidence rose
VendorSuppliedAndScoreRose ==
  /\ sc_pc = "scored"
  /\ sc_before # <<>>
  /\ sc_data.vendor_name # UnknownVendor
  /\ sc_data.amount = 0
  /\ sc_data.invoice_number = <<>>
  /\ FlLt(sc_before[1], sc_data.confidence)

\* C18: the weights of the signals add up to exactly 1.0: a scored record
\* without findings has the sum of the weights of its signals as confidence,
\* each secondary field adding a third of 0.10, and the record with every
\* signal scores 1.0.
FullSignalRecordScoresOne ==
  (sc_pc = "scored" /\ sc_data.validation_errors = <<>>) =>
    /\ FlLt(FlAbs(FlSub(sc_data.confidence,
                        FlFromRatio(SignalPoints(sc_data, ScoreDay), 300))),
            ScoreTolerance)
    /\ SignalPoints(sc_data, ScoreDay) = 300 => sc_data.confidence = Float1_0

(***************************************************************************)
(* Properties of TransactionService.                                       *)
(***************************************************************************)
BlockchainWord == <<"b","l","o","c","k","c","h","a","i","n">>
ValidatedThenRecorded == <<"validation passed", "recording result">>

ValidationFailedWords == <<"v","a","l","i","d","a","t","i","o","n"," ","f","a","i","l","e","d">>

\* C22: create_transaction with a non-positive amount fails the security
\* validation: the finished call has raised a ValueError whose message
\* contains "validation failed", nothing was recorded on the blockchain for
\* it and no transaction was returned.
NonPositiveAmountFailsValidation ==
  (tx_pc = "done" /\ tx_data.type \in TransactionType /\ tx_data.amount <= 0) =>
    /\ tx_result.kind = "raised"
    /\ tx_result.exc = "ValueError"
    /\ Contains(tx_result.msg, ValidationFailedWords)
    /\ tx.id \notin tx_recorded
    /\ tx_result.value = None

CreatedWithId(transaction_id) == {t \in tx_returned : t.id = transaction_id}

\* C23: round trip of a transaction: a get_transaction with the id of a
\* transaction that create_transaction returned earlier gives a transaction
\* (not None) with the same id and the same blockchain hash.
GetReturnsTheCreatedTransaction ==
  [][(tx_got' # tx_got /\ CreatedWithId(tx_got'[1].id) # {}) =>
       /\ tx_got'[1].value # None
       /\ \A t \in CreatedWithId(tx_got'[1].id) :
            /\ tx_got'[1].value.id = t.id
            /\ tx_got'[1].value.blockchain_hash = t.blockchain_hash]_vars

(***************************************************************************)
(* Properties of the extracted dates.                                      *)
(***************************************************************************)
\* a date was parsed from the text: the result of _extract_date does not
\* depend on the day of the call
DateParsedFromText(text) == extract_date(text, Today(0)) = extract_date(text, Today(2))

\* C24: the "today" default of the invoice date is told apart from a parsed
\* date: the returned record gets the date signal of the confidence score
\* exactly when a date was parsed from the text, also when that date is the
\* day of the call, and never when the date is the default.
DateSignalExactlyWhenDateParsed ==
  ReturnedNormally => (DateExtracted(ex_data, ExtractDay) <=> DateParsedFromText(ex_text))

\* C26: no extracted date lies before the year floor: in the returned record
\* the invoice date and the due date are each the default (the day of the
\* call, no due date) or a parsed date whose year is at least 2020.
NoExtractedDateBelowYearFloor ==
  ReturnedNormally =>
    /\ ex_data.date.y >= YearFloor
    /\ ex_data.due_date = NoDueDate \/ ex_data.due_date[1].y >= YearFloor

(***************************************************************************)
(* Properties of save_invoice across owners and over its three statements. *)
(***************************************************************************)
\* C27: owner isolation: a save of an invoice for one owner leaves every
\* persisted row of every other owner in the table, unmodified, also when
\* vendor, amount and date are equal.
SaveKeepsRowsOfOtherOwners ==
  [][invoices' # invoices =>
       \A i \in 1..Len(invoices) :
          invoices[i].user_id # last'.user => invoices[i] \in Range(invoices')]_vars

\* C28: the statistics agree with the records after every sequence of
\* saves: a user's session row holds the count and the sum of the amounts of
\* that user's invoices, and every category row the count and the sum of that
\* user's invoices of that category.
StatisticsAgreeWithRecords ==
  /\ \A u \in DOMAIN user_sessions :
        /\ user_sessions[u].total_invoices = Len(RowsOfUser(invoices, u))
        /\ user_sessions[u].total_expenses = SumAmount(RowsOfUser(invoices, u))
  /\ \A k \in DOMAIN category_stats :
        /\ category_stats[k].invoice_count = Len(RowsOfCategory(invoices, k[1], k[2]))
        /\ category_stats[k].total_amount = SumAmount(RowsOfCategory(invoices, k[1], k[2]))

\* C29: save_invoice is all-or-nothing: when it returns False the invoices,
\* the session rows and the category rows are exactly as before the call;
\* when it returns True the new row, the caller's session row and the
\* category row of the new invoice are all there, computed from the new rows.
SaveIsAllOrNothing ==
  [][clock' = clock =>
       IF outcome'.saved
       THEN \E i \in 1..Len(invoices') :
              /\ invoices'[i].user_id = last'.user
              /\ invoices'[i].invoice_hash = last'.hash
              /\ user_sessions'[last'.user] =
                   [total_expenses |-> SumAmount(RowsOfUser(invoices', last'.user)),
                    total_invoices |-> Len(RowsOfUser(invoices', last'.user))]
              /\ category_stats'[<<last'.user, invoices'[i].category>>] =
                   [total_amount  |-> SumAmount(RowsOfCategory(invoices', last'.user,
                                                               invoices'[i].category)),
                    invoice_count |-> Len(RowsOfCategory(invoices', last'.user,
                                                         invoices'[i].category))]
       ELSE UNCHANGED <<invoices, user_sessions, category_stats>>]_vars

\* a save has failed while rows of earlier saves were stored
SaveFailedWithRowsStored ==
  /\ outcome = [reply |-> "invoice_summary", saved |-> FALSE]
  /\ invoices # <<>>
  /\ DOMAIN user_sessions # {}

\* C25: the life of a persisted invoice record: it is created once and from
\* then on no save deletes it or changes it; in the invoices table every row
\* that was there before a step is there after it, with the same id.
SaveNeverDeletesPersistedRecord ==
  [][\A i \in 1..Len(invoices) :
       \E j \in 1..Len(invoices') : invoices'[j].id = invoices[i].id]_vars

(***************************************************************************)
(* Properties of RateLimitMiddleware.                                      *)
(***************************************************************************)
\* the forwarded requests of a client in the minute that ends at time t
ForwardedInWindow(client_ip, t) ==
  {i \in DOMAIN rl_forwarded[client_ip] :
     /\ rl_forwarded[client_ip][i] > t - WindowSeconds
     /\ rl_forwarded[client_ip][i] <= t}

====
